---- MODULE Spec2Model ----
(***************************************************************************)
(* Model of the scoring-and-comparison engine of KOA_dashboard.py.         *)
(*                                                                         *)
(* The engine is a set of pure functions over one in-memory measurement    *)
(* table (a pandas DataFrame).  The table is the state; every operation    *)
(* of the engine is an action that reads the table and records the call    *)
(* and its return value in `call`.                                         *)
(*                                                                         *)
(* Numbers.  Finite floats are modelled by integers and the arithmetic of  *)
(* the scorer (mean, population standard deviation, z-score) is carried    *)
(* out exactly: with n cohort values of sum S and sum of squares Q,        *)
(*     z = (value - S/n) / (sqrt(n*Q - S*S)/n) = (n*value - S)/sqrt(D)     *)
(* with D = n*Q - S*S, so every comparison of z with a threshold p/q is a  *)
(* comparison of integers.                                                 *)
(***************************************************************************)
EXTENDS Integers, Sequences, FiniteSets, TLC

VARIABLES df, cols, call, session_state

vars == <<df, cols, call, session_state>>

(***************************************************************************)
(* Bounds of the model.                                                    *)
(***************************************************************************)
MaxVal == 4
MaxCohort == 3
MaxRows == 2

(***************************************************************************)
(* Cells of the table.  A cell is one of: NaN (missing), the empty string, *)
(* a non-numeric string, a finite number, or a non-finite float.           *)
(***************************************************************************)
NaN == [k |-> "nan", v |-> 0]
EmptyStr == [k |-> "str", v |-> 0]
TextStr == [k |-> "str", v |-> 1]
Inf == [k |-> "inf", v |-> 1]
Num(n) == [k |-> "num", v |-> n]

\* Python's None, the `default` of the resolvers.
None == [k |-> "none", v |-> 0]

\* pd.notna / Series.notna
notna(c) == c.k # "nan"

\* The element-wise comparisons `!= ''` and `!= 0` of the filters.
NotEmptyString(c) == c # EmptyStr
NotZero(c) == c # Num(0)

\* isinstance(value, (int, float, np.number)) and np.isfinite(value)
IsFiniteNumber(c) == c.k = "num"

(***************************************************************************)
(* Session dates: <<year, month, day>>, or NaT for a missing date.         *)
(***************************************************************************)
NaT == <<0, 0, 0>>
Jan01 == <<2024, 1, 1>>
Feb01 == <<2024, 2, 1>>

\* Order of timestamps (Date column after pd.to_datetime).
DateLess(a, b) ==
    \/ a[1] < b[1]
    \/ a[1] = b[1] /\ a[2] < b[2]
    \/ a[1] = b[1] /\ a[2] = b[2] /\ a[3] < b[3]

Digit == <<"0", "1", "2", "3", "4", "5", "6", "7", "8", "9">>
Dig(n) == Digit[(n % 10) + 1]

\* date_val.strftime('%Y-%m-%d'): a string, here the sequence of its characters.
strftime(d) ==
    << Dig(d[1] \div 1000), Dig(d[1] \div 100), Dig(d[1] \div 10), Dig(d[1]), "-",
       Dig(d[2] \div 10), Dig(d[2]), "-", Dig(d[3] \div 10), Dig(d[3]) >>

\* The string "N/A".
NA == <<"N", "/", "A">>

\* The absent date of a failed safe_get_best_value (Python's None).
NoDate == <<>>

(***************************************************************************)
(* Sequence helpers.                                                       *)
(***************************************************************************)
RECURSIVE SumSeq(_)
SumSeq(s) == IF s = <<>> THEN 0 ELSE Head(s) + SumSeq(Tail(s))

RECURSIVE SumSqSeq(_)
SumSqSeq(s) == IF s = <<>> THEN 0 ELSE Head(s) * Head(s) + SumSqSeq(Tail(s))

RECURSIVE SeqsUpTo(_, _)
SeqsUpTo(S, n) ==
    IF n = 0 THEN {<<>>}
    ELSE LET shorter == SeqsUpTo(S, n - 1)
         IN shorter \cup {Append(s, x) : s \in {t \in shorter : Len(t) = n - 1}, x \in S}

(***************************************************************************)
(* Cohort Scorer: calculate_individual_score.                              *)
(***************************************************************************)
\* n * (value - np.mean(category_values))
ScaledDeviation(value, category_values) ==
    Len(category_values) * value - SumSeq(category_values)

\* (n * np.std(category_values))^2, np.std being the population deviation
ScaledVariance(category_values) ==
    Len(category_values) * SumSqSeq(category_values)
        - SumSeq(category_values) * SumSeq(category_values)

\* z_score < -(p/q)  for p, q > 0, with z_score = d / sqrt(D), D > 0
ZBelowMinus(d, D, p, q) == d < 0 /\ q * q * d * d > p * p * D

\* z_score <= p/q  for p, q > 0
ZAtMost(d, D, p, q) == d <= 0 \/ q * q * d * d <= p * p * D

\* Variant with `z_score < 1.0` for `z_score <= 1.0` in the higher-is-better
\* branch.
ScoreBand_open_at_one(d, D, reverse_scoring) ==
    IF reverse_scoring
    THEN IF ZBelowMinus(d, D, 3, 2) THEN 5
         ELSE IF ZBelowMinus(d, D, 1, 1) THEN 4
         ELSE IF ZAtMost(d, D, 1, 1) THEN 3
         ELSE IF ZAtMost(d, D, 3, 2) THEN 2
         ELSE 1
    ELSE IF ZBelowMinus(d, D, 3, 2) THEN 1
         ELSE IF ZBelowMinus(d, D, 1, 1) THEN 2
         ELSE IF ZAtMost(d, D, 1, 1) /\ ~(d > 0 /\ d * d = D) THEN 3
         ELSE IF ZAtMost(d, D, 3, 2) THEN 4
         ELSE 5

\* Variant with `z_score <= -1.5` for `z_score < -1.5` in the lower-is-better
\* branch.
ScoreBand_reverse_closed_low(d, D, reverse_scoring) ==
    IF reverse_scoring
    THEN IF ZBelowMinus(d, D, 3, 2) \/ (d < 0 /\ 4 * d * d = 9 * D) THEN 5
         ELSE IF ZBelowMinus(d, D, 1, 1) THEN 4
         ELSE IF ZAtMost(d, D, 1, 1) THEN 3
         ELSE IF ZAtMost(d, D, 3, 2) THEN 2
         ELSE 1
    ELSE IF ZBelowMinus(d, D, 3, 2) THEN 1
         ELSE IF ZBelowMinus(d, D, 1, 1) THEN 2
         ELSE IF ZAtMost(d, D, 1, 1) THEN 3
         ELSE IF ZAtMost(d, D, 3, 2) THEN 4
         ELSE 5

\* Variant that takes the higher-is-better branch whatever reverse_scoring is.
ScoreBand_ignoring_direction(d, D, reverse_scoring) ==
    IF ZBelowMinus(d, D, 3, 2) THEN 1
    ELSE IF ZBelowMinus(d, D, 1, 1) THEN 2
    ELSE IF ZAtMost(d, D, 1, 1) THEN 3
    ELSE IF ZAtMost(d, D, 3, 2) THEN 4
    ELSE 5

\* The if/elif cascade on z_score, z_score = d / sqrt(D) with D > 0.
ScoreBand(d, D, reverse_scoring) ==
    IF reverse_scoring
    THEN IF ZBelowMinus(d, D, 3, 2) THEN 5
         ELSE IF ZBelowMinus(d, D, 1, 1) THEN 4
         ELSE IF ZAtMost(d, D, 1, 1) THEN 3
         ELSE IF ZAtMost(d, D, 3, 2) THEN 2
         ELSE 1
    ELSE IF ZBelowMinus(d, D, 3, 2) THEN 1
         ELSE IF ZBelowMinus(d, D, 1, 1) THEN 2
         ELSE IF ZAtMost(d, D, 1, 1) THEN 3
         ELSE IF ZAtMost(d, D, 3, 2) THEN 4
         ELSE 5

\* Variant without the two early returns: np.mean of an empty list is nan, a zero
\* deviation divides to nan or to an infinity, and every comparison with nan
\* is false, so the cascade falls through to its last branch.
calculate_individual_score_unguarded(value, category_values, reverse_scoring) ==
    LET d == ScaledDeviation(value, category_values)
        D == ScaledVariance(category_values)
    IN  IF Len(category_values) = 0 \/ D = 0
        THEN IF d < 0 THEN (IF reverse_scoring THEN 5 ELSE 1)
                      ELSE (IF reverse_scoring THEN 1 ELSE 5)
        ELSE ScoreBand(d, D, reverse_scoring)

\* calculate_individual_score for a finite value and finite cohort values.
calculate_individual_score(value, category_values, reverse_scoring) ==
    IF Len(category_values) < 2 THEN 3
    ELSE LET d == ScaledDeviation(value, category_values)
             D == ScaledVariance(category_values)
         IN  IF D = 0 THEN 3 ELSE ScoreBand(d, D, reverse_scoring)

(***************************************************************************)
(* The measurement table.  `df` is the sequence of its rows in table order *)
(* and `cols` the set of its column names.  A row carries its index label  *)
(* (unique, kept by every filter), the Name, Category and Date cells and   *)
(* one cell per metric column.  The Date and Category of a table without   *)
(* that column are NaT and NoCategory in every row.                        *)
(***************************************************************************)
NoCategory == ""

Row(idx, name, category, date, cells) ==
    [idx |-> idx, Name |-> name, Category |-> category, Date |-> date, cells |-> cells]

\* data[column] of one row
CellOf(row, column) == row.cells[column]

\* df[df['Name'] == player_name]
PlayerData(data, player_name) == SelectSeq(data, LAMBDA row : row.Name = player_name)

\* Variant without the `!= 0` filter.
ValidData_keeping_zero(data, column) ==
    SelectSeq(data, LAMBDA row : /\ notna(CellOf(row, column))
                                 /\ NotEmptyString(CellOf(row, column)))

\* The rows that pass the three filters on `column`:
\*   data[data[column].notna()], then [column] != '', then [column] != 0
ValidData(data, column) ==
    SelectSeq(data, LAMBDA row : /\ notna(CellOf(row, column))
                                 /\ NotEmptyString(CellOf(row, column))
                                 /\ NotZero(CellOf(row, column)))

\* The injections of 1..n onto itself
IndexPermutations(n) == {p \in [1 .. n -> 1 .. n] : \A i, j \in 1 .. n : p[i] = p[j] => i = j}

\* The permutations of the short tables, computed once.
SmallPermutations == [n \in 0 .. 5 |-> {p : p \in IndexPermutations(n)}]

\* data.sort_values('Date', ascending=False): the rows with a date in
\* descending order of date, then the rows without a date (na_position
\* 'last') in table order.  The default sort kind is quicksort, which is not
\* stable: rows of equal date come out in any order.
SortValuesDateDescending(data) ==
    LET n == Len(data)
    IN  { [i \in 1 .. n |-> data[p[i]]] : p \in
            { q \in (IF n \in DOMAIN SmallPermutations THEN SmallPermutations[n]
                     ELSE IndexPermutations(n)) :
                \A i, j \in 1 .. n : i < j =>
                    LET a == data[q[i]].Date
                        b == data[q[j]].Date
                    IN  /\ a = NaT => b = NaT
                        /\ (a = NaT /\ b = NaT) => q[i] < q[j]
                        /\ (a # NaT /\ b # NaT) => ~DateLess(a, b) } }

(***************************************************************************)
(* Value Resolver: safe_get_value.                                         *)
(***************************************************************************)
\* The tail of safe_get_value: the checks on the selected value.
ReturnedValue(value) ==
    IF ~notna(value) \/ value = EmptyStr \/ value = Num(0) THEN None
    ELSE IF IsFiniteNumber(value) THEN value
    ELSE None

\* The values safe_get_value(data, column) can return (one per order the
\* sort can produce).
safe_get_value(data, columns, column) ==
    IF column \notin columns \/ data = <<>> THEN {None}
    ELSE LET valid_data == ValidData(data, column)
         IN  IF valid_data = <<>> THEN {None}
             ELSE IF "Date" \in columns
                  THEN {ReturnedValue(CellOf(sorted[1], column)) :
                            sorted \in SortValuesDateDescending(valid_data)}
                  ELSE {ReturnedValue(CellOf(valid_data[Len(valid_data)], column))}

(***************************************************************************)
(* Value Resolver: safe_get_best_value.                                    *)
(***************************************************************************)
\* pd.to_numeric(cell, errors='coerce'): a string that is no number is NaN.
to_numeric(c) == IF c.k = "str" THEN NaN ELSE c

\* a < b for two numeric cells (finite numbers and +inf)
NumLess(a, b) ==
    \/ a.k = "num" /\ b.k = "inf"
    \/ a.k = "num" /\ b.k = "num" /\ a.v < b.v

\* clean_values: the rows of valid_data whose cell is numeric after coercion
CleanValues(valid_data, column) ==
    SelectSeq(valid_data, LAMBDA row : notna(to_numeric(CellOf(row, column))))

\* clean_values.max()
MaxValue(clean, column) ==
    CHOOSE m \in {to_numeric(CellOf(clean[i], column)) : i \in 1 .. Len(clean)} :
        \A i \in 1 .. Len(clean) : ~NumLess(m, to_numeric(CellOf(clean[i], column)))

\* clean_values.idxmax(): the index label of the first row holding the maximum
IdxMax(clean, column) ==
    LET first == CHOOSE i \in 1 .. Len(clean) :
                    /\ to_numeric(CellOf(clean[i], column)) = MaxValue(clean, column)
                    /\ \A j \in 1 .. (i - 1) :
                          to_numeric(CellOf(clean[j], column)) # MaxValue(clean, column)
    IN  clean[first].idx

\* data.loc[label, 'Date']
LocDate(data, label) ==
    LET i == CHOOSE j \in 1 .. Len(data) : data[j].idx = label
    IN  data[i].Date

\* Variant that takes the date of the latest dated row.
BestDate_of_latest(data, columns, max_idx) ==
    IF "Date" \in columns /\ \E j \in 1 .. Len(data) : data[j].Date # NaT
    THEN LET latest == CHOOSE j \in 1 .. Len(data) :
                          /\ data[j].Date # NaT
                          /\ \A i \in 1 .. Len(data) :
                                data[i].Date # NaT => ~DateLess(data[j].Date, data[i].Date)
         IN  strftime(data[latest].Date)
    ELSE NA

\* best_date of safe_get_best_value
BestDate(data, columns, max_idx) ==
    IF "Date" \in columns /\ (\E j \in 1 .. Len(data) : data[j].idx = max_idx)
    THEN LET date_val == LocDate(data, max_idx)
         IN  IF date_val # NaT THEN strftime(date_val) ELSE NA
    ELSE NA

\* The pair (value, date) safe_get_best_value returns.
Best(value, date) == [value |-> value, date |-> date]

safe_get_best_value(data, columns, column) ==
    IF column \notin columns \/ data = <<>> THEN Best(None, NoDate)
    ELSE LET valid_data == ValidData(data, column)
         IN  IF valid_data = <<>> THEN Best(None, NoDate)
             ELSE LET clean_values == CleanValues(valid_data, column)
                  IN  IF clean_values = <<>> THEN Best(None, NoDate)
                      ELSE Best(MaxValue(clean_values, column),
                                BestDate(data, columns, IdxMax(clean_values, column)))

(***************************************************************************)
(* Cohort of an athlete and get_individual_metric_score.                   *)
(***************************************************************************)
\* The names a table can hold, in the order groupby('Name') yields its groups.
NameOrder == <<"A", "B", "C", "D", "E">>

\* player_category: the first Category of the athlete's rows that is not
\* missing, or NoCategory (Python's None) when there is none.
PlayerCategory(player_data, columns) ==
    IF "Category" \in columns /\ \E i \in 1 .. Len(player_data) : player_data[i].Category # NoCategory
    THEN LET first == CHOOSE i \in 1 .. Len(player_data) :
                         /\ player_data[i].Category # NoCategory
                         /\ \A j \in 1 .. (i - 1) : player_data[j].Category = NoCategory
         IN  player_data[first].Category
    ELSE NoCategory

\* category_data: all_data, or all_data[all_data['Category'] == player_category]
CategoryData(all_data, player_category) ==
    IF player_category = NoCategory THEN all_data
    ELSE SelectSeq(all_data, LAMBDA row : row.Category = player_category)

\* The lists category_values can be after the loop over
\* category_data.groupby('Name'), for the groups of the names names[k..].
RECURSIVE CategoryValues(_, _, _, _, _)
CategoryValues(names, k, category_data, columns, metric) ==
    IF k > Len(names) THEN {<<>>}
    ELSE LET category_player_row == PlayerData(category_data, names[k])
             rest == CategoryValues(names, k + 1, category_data, columns, metric)
         IN  IF category_player_row = <<>> THEN rest
             ELSE UNION { IF latest_value = None THEN rest
                          ELSE {<<latest_value.v>> \o r : r \in rest} :
                          latest_value \in safe_get_value(category_player_row, columns, metric) }

\* What one run of get_individual_metric_score computes: the athlete's value,
\* the cohort values and the returned score.
MetricScore(value, cohort, score) == [value |-> value, cohort |-> cohort, score |-> score]

get_individual_metric_score(player_data, all_data, columns, metric, reverse_scoring) ==
    LET player_category == PlayerCategory(player_data, columns)
        category_data == CategoryData(all_data, player_category)
    IN  UNION {
          IF player_value = None THEN {MetricScore(None, <<>>, None)}
          ELSE { IF Len(category_values) < 2
                 THEN MetricScore(player_value, category_values, None)
                 ELSE MetricScore(player_value, category_values,
                        Num(calculate_individual_score(player_value.v, category_values,
                                                       reverse_scoring))) :
                 category_values \in CategoryValues(NameOrder, 1, category_data, columns, metric) } :
          player_value \in safe_get_value(player_data, columns, metric) }

(***************************************************************************)
(* The record of the last call: the operation, its arguments and what it   *)
(* returned.                                                               *)
(***************************************************************************)
Call(op, player, column, value, cohort, reverse, ret, date) ==
    [op |-> op, player |-> player, column |-> column, value |-> value,
     cohort |-> cohort, reverse |-> reverse, ret |-> ret, date |-> date]

NoCall == Call("none", "", "", 0, <<>>, FALSE, None, NoDate)

\* st.session_state when the session starts: no key.
EmptySessionState == [key \in {} |-> <<>>]

\* The engine is synchronous: one call runs at a time, and its result is
\* dropped by the caller before the next call is made.
Idle == call.op = "none"

Discard ==
    /\ ~Idle
    /\ call' = NoCall
    /\ UNCHANGED <<df, cols, session_state>>

(***************************************************************************)
(* Specification of the Cohort Scorer alone: the arguments of              *)
(* calculate_individual_score are drawn from bounded sets.                 *)
(***************************************************************************)
ExampleCohort == <<10, 12, 14, 16, 18>>
ExampleValues == {9, 14, 19}

ScoreValues == ((0 - 1) .. (MaxVal + 1)) \cup ExampleValues
ScoreCohorts == SeqsUpTo(0 .. MaxVal, MaxCohort) \cup {ExampleCohort}

InitScore ==
    /\ df = <<>>
    /\ cols = {}
    /\ call = NoCall
    /\ session_state = EmptySessionState

CallIndividualScore ==
    /\ Idle
    /\ \E value \in ScoreValues, category_values \in ScoreCohorts, reverse_scoring \in BOOLEAN :
        /\ call' = Call("calculate_individual_score", "", "", value, category_values,
                        reverse_scoring,
                        Num(calculate_individual_score(value, category_values, reverse_scoring)),
                        NoDate)
        /\ UNCHANGED <<df, cols, session_state>>

NextScore == CallIndividualScore \/ Discard

SpecScore == InitScore /\ [][NextScore]_vars

(***************************************************************************)
(* Claims about the Cohort Scorer.                                         *)
(***************************************************************************)
IsScoreCall == call.op = "calculate_individual_score"

\* All values of the list are equal: its standard deviation is 0.
AllEqual(s) == \A i, j \in 1 .. Len(s) : s[i] = s[j]

\* a < b * sqrt(D) for integers a, b and D >= 0
LessThanRoot(a, b, D) ==
    IF a < 0 THEN b >= 0 \/ a * a > b * b * D
    ELSE b > 0 /\ a * a < b * b * D

\* z < p/q and z <= p/q for z = d / sqrt(D), q > 0, p of either sign
ZLt(d, D, p, q) == LessThanRoot(q * d, p, D)
ZLe(d, D, p, q) == ~LessThanRoot(0 - (q * d), 0 - p, D)

\* C1: the score is one of 1..5, and it is 3 whenever the cohort has fewer
\* than 2 values or its standard deviation is 0.
C1_ScoreInRange ==
    IsScoreCall =>
        /\ call.ret \in {Num(s) : s \in 1 .. 5}
        /\ (Len(call.cohort) < 2 \/ AllEqual(call.cohort)) => call.ret = Num(3)

C1_Witness ==
    /\ IsScoreCall
    /\ Len(call.cohort) >= 2
    /\ AllEqual(call.cohort)
    /\ call.value # call.cohort[1]
    /\ call.ret = Num(3)

\* C2: for a higher-is-better metric and a cohort of non-zero deviation the
\* score is 1 iff z < -1.5, 2 iff -1.5 <= z < -1.0, 3 iff -1.0 <= z <= 1.0,
\* 4 iff 1.0 < z <= 1.5 and 5 iff z > 1.5; against [10,12,14,16,18] the values
\* 19, 9 and 14 score 5, 1 and 3.
C2_Bands ==
    (IsScoreCall /\ ~call.reverse /\ Len(call.cohort) >= 2 /\ ~AllEqual(call.cohort)) =>
        LET d == ScaledDeviation(call.value, call.cohort)
            D == ScaledVariance(call.cohort)
            s == call.ret.v
        IN  /\ (s = 1) <=> ZLt(d, D, 0 - 3, 2)
            /\ (s = 2) <=> (~ZLt(d, D, 0 - 3, 2) /\ ZLt(d, D, 0 - 1, 1))
            /\ (s = 3) <=> (~ZLt(d, D, 0 - 1, 1) /\ ZLe(d, D, 1, 1))
            /\ (s = 4) <=> (~ZLe(d, D, 1, 1) /\ ZLe(d, D, 3, 2))
            /\ (s = 5) <=> ~ZLe(d, D, 3, 2)
            /\ (call.cohort = ExampleCohort /\ call.value = 19) => s = 5
            /\ (call.cohort = ExampleCohort /\ call.value = 9) => s = 1
            /\ (call.cohort = ExampleCohort /\ call.value = 14) => s = 3

\* z is exactly 1.0 and the score is 3, not 4.
C2_Witness ==
    /\ IsScoreCall
    /\ ~call.reverse
    /\ Len(call.cohort) >= 2
    /\ LET d == ScaledDeviation(call.value, call.cohort)
           D == ScaledVariance(call.cohort)
       IN  d > 0 /\ d * d = D
    /\ call.ret = Num(3)

\* C3: with a cohort of non-zero deviation, the score of a lower-is-better
\* metric is 6 minus the score of the same value as a higher-is-better metric,
\* and is the higher-is-better score of the value reflected about the mean.
C3_Mirror ==
    (IsScoreCall /\ call.reverse /\ Len(call.cohort) >= 2 /\ ~AllEqual(call.cohort)) =>
        LET d == ScaledDeviation(call.value, call.cohort)
            D == ScaledVariance(call.cohort)
        IN  /\ call.ret.v = 6 - calculate_individual_score(call.value, call.cohort, FALSE)
            /\ call.ret.v = ScoreBand(0 - d, D, FALSE)

\* z is exactly -1.5 for a lower-is-better metric: the score is 4.
C3_Witness ==
    /\ IsScoreCall
    /\ call.reverse
    /\ Len(call.cohort) >= 2
    /\ LET d == ScaledDeviation(call.value, call.cohort)
           D == ScaledVariance(call.cohort)
       IN  d < 0 /\ 4 * d * d = 9 * D
    /\ call.ret = Num(4)

\* C4: for a lower-is-better metric and a fixed cohort, a smaller value never
\* scores strictly lower than a larger one.
C4_Monotone ==
    (IsScoreCall /\ call.reverse) =>
        \A other \in ScoreValues :
            /\ other < call.value =>
                 calculate_individual_score(other, call.cohort, TRUE) >= call.ret.v
            /\ other > call.value =>
                 calculate_individual_score(other, call.cohort, TRUE) <= call.ret.v

\* A smaller value that scores strictly higher exists.
C4_Witness ==
    /\ IsScoreCall
    /\ call.reverse
    /\ \E other \in ScoreValues :
          /\ other < call.value
          /\ calculate_individual_score(other, call.cohort, TRUE) > call.ret.v

(***************************************************************************)
(* Metric catalog.                                                         *)
(***************************************************************************)
\* The metrics of the 'Agility' section, whose reverse_scoring is True.
LowerIsBetterMetrics == {"10m_Sprint", "505_Test_Forward", "505_Test_Backward", "CODD"}

\* The side hop test, the one metric whose reading of 0 is shown as "0%".
ZeroExemptMetric == "SH"

(***************************************************************************)
(* Specification of the Value Resolver: the table holds the records of one *)
(* athlete and one metric column; the resolvers are called for any athlete *)
(* and any metric.                                                         *)
(***************************************************************************)
MaxReading == 2

ResolveMetrics == {"10m_Sprint", "BJ", ZeroExemptMetric}
ResolveNames == {"A", "B"}
ResolveDates == {NaT, Jan01, Feb01}
ResolveCells == {NaN, EmptyStr, TextStr, Inf} \cup {Num(n) : n \in 0 .. MaxReading}

\* A table of n rows with a RangeIndex, all of athlete "A".
ResolveTable(n, metric, dates, cells) ==
    [i \in 1 .. n |-> Row(i - 1, "A", "U12", dates[i], [c \in {metric} |-> cells[i]])]

InitResolve ==
    /\ call = NoCall
    /\ session_state = EmptySessionState
    /\ \E metric \in ResolveMetrics, hasDate \in BOOLEAN, n \in 0 .. MaxRows :
          /\ cols = {"Name", "Category", metric} \cup (IF hasDate THEN {"Date"} ELSE {})
          /\ \E dates \in [1 .. n -> IF hasDate THEN ResolveDates ELSE {NaT}],
                cells \in [1 .. n -> ResolveCells] :
                df = ResolveTable(n, metric, dates, cells)

CallSafeGetValue ==
    /\ Idle
    /\ \E player \in ResolveNames, column \in ResolveMetrics :
          \E value \in safe_get_value(PlayerData(df, player), cols, column) :
              call' = Call("safe_get_value", player, column, 0, <<>>, FALSE, value, NoDate)
    /\ UNCHANGED <<df, cols, session_state>>

CallSafeGetBestValue ==
    /\ Idle
    /\ \E player \in ResolveNames, column \in ResolveMetrics :
          LET best == safe_get_best_value(PlayerData(df, player), cols, column)
          IN  call' = Call("safe_get_best_value", player, column, 0, <<>>, FALSE,
                           best.value, best.date)
    /\ UNCHANGED <<df, cols, session_state>>

NextResolve == CallSafeGetValue \/ CallSafeGetBestValue \/ Discard

SpecResolve == InitResolve /\ [][NextResolve]_vars

(***************************************************************************)
(* Claims about the Value Resolver.                                        *)
(***************************************************************************)
IsGetValueCall == call.op = "safe_get_value"
IsBestValueCall == call.op = "safe_get_best_value"

\* The records of the athlete the call was made for.
CallData == PlayerData(df, call.player)

\* A reading is valid iff it is not missing, not the empty string and not zero.
IsValidReading(c) == c # NaN /\ c # EmptyStr /\ c # Num(0)

\* The positions in `data` of the valid readings of `column`.
ValidPositions(data, column) ==
    {i \in 1 .. Len(data) : IsValidReading(CellOf(data[i], column))}

\* The positions of the valid readings of the greatest session date.
LatestValidPositions(data, column) ==
    {i \in ValidPositions(data, column) :
        /\ data[i].Date # NaT
        /\ \A j \in ValidPositions(data, column) :
              data[j].Date # NaT => ~DateLess(data[i].Date, data[j].Date)}

PresentPositions(data, column) ==
    {i \in 1 .. Len(data) : CellOf(data[i], column) # NaN /\ CellOf(data[i], column) # EmptyStr}

LatestPresentPositions(data, column) ==
    {i \in PresentPositions(data, column) :
        /\ data[i].Date # NaT
        /\ \A j \in PresentPositions(data, column) :
              data[j].Date # NaT /\ j # i => DateLess(data[j].Date, data[i].Date)}

\* C6: for the zero-exempt metric, when the most recent reading that is not
\* missing is 0, the latest value is 0, and a 0 reading counts in the best
\* value.
C6_ZeroExempt ==
    /\ (/\ IsGetValueCall
        /\ call.column = ZeroExemptMetric
        /\ call.column \in cols
        /\ \E i \in LatestPresentPositions(CallData, call.column) :
              CellOf(CallData[i], call.column) = Num(0))
         => call.ret = Num(0)
    /\ (/\ IsBestValueCall
        /\ call.column = ZeroExemptMetric
        /\ call.column \in cols
        /\ \E i \in 1 .. Len(CallData) : CellOf(CallData[i], call.column) = Num(0))
         => call.ret # None

\* The numeric values of the valid readings.
ValidNumbers(data, column) ==
    {to_numeric(CellOf(data[i], column)) : i \in ValidPositions(data, column)} \ {NaN}

\* Every reading of the athlete for the metric is finite, empty or missing.
ReadingsFinite(data, column) ==
    \A i \in 1 .. Len(data) : CellOf(data[i], column) \notin {Inf, TextStr}

\* C7: the best value is the minimum of the valid readings for a
\* lower-is-better metric and the maximum for every other metric.
C7_BestByDirection ==
    (/\ IsBestValueCall
     /\ call.column \in cols
     /\ ReadingsFinite(CallData, call.column)
     /\ ValidNumbers(CallData, call.column) # {}) =>
        LET values == ValidNumbers(CallData, call.column)
        IN  /\ call.ret \in values
            /\ IF call.column \in LowerIsBetterMetrics
               THEN \A v \in values : ~NumLess(v, call.ret)
               ELSE \A v \in values : ~NumLess(call.ret, v)

DigitValue(ch) == CHOOSE n \in 0 .. 9 : Digit[n + 1] = ch

\* The date a 'YYYY-MM-DD' string stands for.
ParseDate(str) ==
    << 1000 * DigitValue(str[1]) + 100 * DigitValue(str[2])
         + 10 * DigitValue(str[3]) + DigitValue(str[4]),
       10 * DigitValue(str[6]) + DigitValue(str[7]),
       10 * DigitValue(str[9]) + DigitValue(str[10]) >>

\* C8: the date returned with the best value is the session date of a record
\* of the athlete whose value is the returned best value, or "N/A" when that
\* record has no date.
C8_BestDate ==
    (IsBestValueCall /\ call.ret # None) =>
        \E i \in 1 .. Len(CallData) :
            /\ to_numeric(CellOf(CallData[i], call.column)) = call.ret
            /\ IF CallData[i].Date = NaT
               THEN call.date = NA
               ELSE /\ call.date # NA
                    /\ Len(call.date) = 10
                    /\ ParseDate(call.date) = CallData[i].Date

\* The best value is held by the older of two dated records.
C8_Witness ==
    /\ IsBestValueCall
    /\ call.column \in cols
    /\ Len(CallData) = 2
    /\ CallData[1].Date = Jan01
    /\ CallData[2].Date = Feb01
    /\ CellOf(CallData[1], call.column) = Num(2)
    /\ CellOf(CallData[2], call.column) = Num(1)
    /\ call.ret = Num(2)
    /\ call.date = <<"2", "0", "2", "4", "-", "0", "1", "-", "0", "1">>

\* The athlete has a valid reading of the metric that is a finite number.
HasFiniteValidReading(data, column) ==
    \E i \in ValidPositions(data, column) : CellOf(data[i], column).k = "num"

\* C9: the resolvers fail closed: an absent result of safe_get_value is None
\* and one of safe_get_best_value is (None, None); each returns an absent
\* result when the athlete has no valid reading of the metric, and a value
\* when the athlete has a valid reading.
C9_FailClosed ==
    /\ (IsGetValueCall \/ IsBestValueCall) =>
          /\ (call.column \notin cols \/ ValidPositions(CallData, call.column) = {})
                => call.ret = None
          /\ (call.column \in cols /\ HasFiniteValidReading(CallData, call.column))
                => call.ret # None
    /\ IsBestValueCall => (call.ret = None <=> call.date = NoDate)

(***************************************************************************)
(* Specification of the cohort: the table holds the records of several     *)
(* athletes, each row with its own Category (or none); rows are in session *)
(* order, the i-th row dated the first of month i.                         *)
(***************************************************************************)
MaxCohortRows == 3

CohortMetric == "BJ"
CohortNames == {"A", "B"}
CohortCategories == {NoCategory, "U12", "U15"}
CohortCells == {NaN, Num(1), Num(3)}

DateOfRow(i) == <<2024, i, 1>>

CohortTable(n, names, categories, cells) ==
    [i \in 1 .. n |-> Row(i - 1, names[i], categories[i], DateOfRow(i),
                          [c \in {CohortMetric} |-> cells[i]])]

InitCohort ==
    /\ call = NoCall
    /\ session_state = EmptySessionState
    /\ cols = {"Name", "Category", "Date", CohortMetric}
    /\ \E n \in 0 .. MaxCohortRows :
          \E names \in [1 .. n -> CohortNames],
             categories \in [1 .. n -> CohortCategories],
             cells \in [1 .. n -> CohortCells] :
                df = CohortTable(n, names, categories, cells)

CallGetIndividualMetricScore ==
    /\ Idle
    /\ \E player \in CohortNames, reverse_scoring \in BOOLEAN :
          \E out \in get_individual_metric_score(PlayerData(df, player), df, cols,
                                                 CohortMetric, reverse_scoring) :
              call' = Call("get_individual_metric_score", player, CohortMetric, out.value,
                           out.cohort, reverse_scoring, out.score, NoDate)
    /\ UNCHANGED <<df, cols, session_state>>

NextCohort == CallGetIndividualMetricScore \/ Discard

SpecCohort == InitCohort /\ [][NextCohort]_vars

(***************************************************************************)
(* Claims about the cohort.                                                *)
(***************************************************************************)
IsMetricScoreCall == call.op = "get_individual_metric_score"

\* The categories on the rows of an athlete.
LabelsOf(name) ==
    {df[i].Category : i \in {j \in 1 .. Len(df) : df[j].Name = name}} \ {NoCategory}

\* The athlete's own latest valid value over all of the athlete's records
\* (session dates are distinct), as a list of at most one value.
OwnLatestValid(name, column) ==
    LET data == PlayerData(df, name)
        latest == LatestValidPositions(data, column)
    IN  IF latest = {} THEN <<>>
        ELSE <<CellOf(data[CHOOSE i \in latest : TRUE], column).v>>

RECURSIVE OwnLatestOf(_, _, _)
OwnLatestOf(members, k, column) ==
    IF k > Len(NameOrder) THEN <<>>
    ELSE (IF NameOrder[k] \in members THEN OwnLatestValid(NameOrder[k], column) ELSE <<>>)
            \o OwnLatestOf(members, k + 1, column)

\* C10: the cohort values an athlete is scored against are one value per
\* athlete sharing the athlete's category label, that athlete's own latest
\* valid value; without a category label the cohort is every athlete.  (An
\* athlete shares the label when all, or at least one, of the athlete's
\* labelled rows carry it: the claim holds if either reading gives the
\* cohort.)
C10_Cohort ==
    (IsMetricScoreCall /\ call.value # None) =>
        LET label == PlayerCategory(CallData, cols)
            present == {name \in CohortNames : PlayerData(df, name) # <<>>}
            some == {name \in present : label \in LabelsOf(name)}
            only == {name \in present : LabelsOf(name) = {label}}
        IN  IF label = NoCategory
            THEN call.cohort = OwnLatestOf(present, 1, call.column)
            ELSE \E members \in SUBSET some :
                    /\ only \subseteq members
                    /\ call.cohort = OwnLatestOf(members, 1, call.column)

(***************************************************************************)
(* Section and overall scores: get_test_config, calculate_section_score,   *)
(* calculate_overall_score.                                                *)
(***************************************************************************)
\* Variant that rounds an exact half up.
round_mean_half_up(scores) ==
    LET n == Len(scores)
        total == SumSeq(scores)
    IN  IF 2 * (total % n) < n THEN total \div n ELSE (total \div n) + 1

\* round(np.mean(scores)) of a non-empty list of non-negative integers:
\* the mean is total / n, and round() takes an exact half to the even
\* neighbour.
round_mean(scores) ==
    LET n == Len(scores)
        total == SumSeq(scores)
        floor == total \div n
        rest == total % n
    IN  IF 2 * rest < n THEN floor
        ELSE IF 2 * rest > n THEN floor + 1
        ELSE IF floor % 2 = 0 THEN floor
        ELSE floor + 1

\* The sections of get_test_config with their score_metrics and direction.
SectionConfig(score_metrics, reverse_scoring) ==
    [score_metrics |-> score_metrics, reverse_scoring |-> reverse_scoring]

get_test_config ==
    [section \in {"Body Composition", "Agility", "Jumping"} |->
        CASE section = "Body Composition" -> SectionConfig(<<"Height", "Weight">>, FALSE)
          [] section = "Agility" ->
                SectionConfig(<<"10m_Sprint", "505_Test_Forward", "505_Test_Backward">>, TRUE)
          [] section = "Jumping" -> SectionConfig(<<"BJ", "SJ", "CMJ", "RJ">>, FALSE)]

\* Variant that counts a metric without a score as a score of 0.
item_score_zero_when_missing(player_value, category_values, reverse_scoring) ==
    IF player_value = None \/ Len(category_values) < 2 THEN <<0>>
    ELSE <<calculate_individual_score(player_value.v, category_values, reverse_scoring)>>

\* Variant that scores a metric with a cohort of fewer than two values as a
\* neutral 3.
item_score_neutral_for_small_cohort(player_value, category_values, reverse_scoring) ==
    IF player_value = None THEN <<>>
    ELSE <<calculate_individual_score(player_value.v, category_values, reverse_scoring)>>

\* What one pass of the loop over score_metrics appends to item_scores:
\* nothing (continue) without a value of the athlete or with a cohort of
\* fewer than two values, else the metric's score.
item_score(player_value, category_values, reverse_scoring) ==
    IF player_value = None \/ Len(category_values) < 2 THEN <<>>
    ELSE <<calculate_individual_score(player_value.v, category_values, reverse_scoring)>>

\* The lists item_scores can be after the metrics score_metrics[k..].
RECURSIVE ItemScores(_, _, _, _, _, _)
ItemScores(player_data, category_data, columns, score_metrics, k, reverse_scoring) ==
    IF k > Len(score_metrics) THEN {<<>>}
    ELSE LET metric == score_metrics[k]
             rest == ItemScores(player_data, category_data, columns, score_metrics, k + 1,
                                reverse_scoring)
         IN  UNION { { item_score(player_value, category_values, reverse_scoring) \o r :
                         r \in rest,
                         category_values \in
                             CategoryValues(NameOrder, 1, category_data, columns, metric) } :
                     player_value \in safe_get_value(player_data, columns, metric) }

\* The scores calculate_section_score can return (None: no score).
calculate_section_score(player_data, all_data, columns, score_metrics, reverse_scoring) ==
    LET player_category == PlayerCategory(player_data, columns)
        category_data == CategoryData(all_data, player_category)
    IN  IF category_data = <<>> THEN {None}
        ELSE { IF item_scores = <<>> THEN None ELSE Num(round_mean(item_scores)) :
               item_scores \in ItemScores(player_data, category_data, columns, score_metrics,
                                          1, reverse_scoring) }

(***************************************************************************)
(* Specification of the section score: one record per athlete, all in one  *)
(* category, over the two metric columns of one section.                   *)
(***************************************************************************)
MaxAthletes == 4

SectionNames == {"Body Composition", "Agility", "Jumping"}
SectionColumns == {{"Height", "Weight"}, {"10m_Sprint", "505_Test_Forward"}}
SectionCells == {NaN, Num(1), Num(2)}

\* The athlete a score is asked for is the first of the table: the tables
\* hold every combination of this athlete's and the others' readings.
SectionPlayers == {NameOrder[1]}

SectionTable(n, metrics, cells) ==
    [i \in 1 .. n |-> Row(i - 1, NameOrder[i], "U12", DateOfRow(i),
                          [c \in metrics |-> cells[i][c]])]

InitSection ==
    /\ call = NoCall
    /\ session_state = EmptySessionState
    /\ \E metrics \in SectionColumns :
          /\ cols = {"Name", "Category", "Date"} \cup metrics
          /\ \E n \in {0, MaxAthletes} :
                \E cells \in [1 .. n -> [metrics -> SectionCells]] :
                    df = SectionTable(n, metrics, cells)

CallCalculateSectionScore ==
    /\ Idle
    /\ \E player \in SectionPlayers, section \in SectionNames :
          \E section_score \in
                calculate_section_score(PlayerData(df, player), df, cols,
                                        get_test_config[section].score_metrics,
                                        get_test_config[section].reverse_scoring) :
              call' = Call("calculate_section_score", player, section, 0, <<>>,
                           get_test_config[section].reverse_scoring, section_score, NoDate)
    /\ UNCHANGED <<df, cols, session_state>>

NextSection == CallCalculateSectionScore \/ Discard

SpecSection == InitSection /\ [][NextSection]_vars

(***************************************************************************)
(* Claims about the section score.                                         *)
(***************************************************************************)
IsSectionCall == call.op = "calculate_section_score"

\* The athlete's available per-metric scores in the section of the call:
\* what get_individual_metric_score gives for each metric of the section,
\* those without a score left out.  (One record per athlete: no ties.)
AvailableScores ==
    LET score_metrics == get_test_config[call.column].score_metrics
        scores == [k \in 1 .. Len(score_metrics) |->
                     (CHOOSE out \in get_individual_metric_score(CallData, df, cols,
                                         score_metrics[k], call.reverse) : TRUE).score]
        available == SelectSeq(scores, LAMBDA s : s # None)
    IN  [k \in 1 .. Len(available) |-> available[k].v]

\* C11: calculate_section_score returns the mean of the available
\* per-metric scores rounded to the nearest integer, metrics without a
\* score left out of the mean; no score when no metric is scorable; exactly
\* 5 when every scorable metric scores 5.
C11_SectionMean ==
    IsSectionCall =>
        LET available == AvailableScores
            n == Len(available)
            total == SumSeq(available)
        IN  IF n = 0 THEN call.ret = None
            ELSE /\ call.ret.k = "num"
                 /\ 2 * (n * call.ret.v - total) <= n
                 /\ 2 * (total - n * call.ret.v) <= n
                 /\ (\A k \in 1 .. n : available[k] = 5) => call.ret = Num(5)

\* An athlete scored 5 on one metric of a two-metric section and without a
\* score on the other: the section score is 5, not the 2 or 3 a 0 would give.
C11_Witness ==
    /\ IsSectionCall
    /\ call.column = "Body Composition"
    /\ "Weight" \in cols
    /\ AvailableScores = <<5>>
    /\ call.ret = Num(5)


(***************************************************************************)
(* calculate_overall_score and the overall score generate_pdf_report       *)
(* recomputes from the section scores it is given.                         *)
(***************************************************************************)
\* The sections in the order of the dictionary section_scores.
SectionOrder == <<"Body Composition", "Agility", "Jumping">>

\* list(section_scores.values())
ScoreValuesOf(section_scores) ==
    [k \in 1 .. Len(SectionOrder) |-> section_scores[SectionOrder[k]]]

\* Variant that keeps every section, an absent score counted as 0.
ValidScores_counting_absent(section_scores) ==
    [k \in 1 .. Len(SectionOrder) |->
        IF section_scores[SectionOrder[k]] = None THEN 0
        ELSE section_scores[SectionOrder[k]].v]

\* valid_scores: the scores that are not None and > 0
ValidScores(section_scores) ==
    LET valid == SelectSeq(ScoreValuesOf(section_scores),
                           LAMBDA score : score # None /\ score.v > 0)
    IN  [k \in 1 .. Len(valid) |-> valid[k].v]

\* Variant that averages every section, the placeholder 0 included.
calculate_overall_score_averaging_placeholder(section_scores) ==
    LET valid == SelectSeq(ScoreValuesOf(section_scores), LAMBDA score : score # None)
    IN  IF valid = <<>> THEN None
        ELSE Num(round_mean([k \in 1 .. Len(valid) |-> valid[k].v]))

calculate_overall_score(section_scores) ==
    LET valid_scores == ValidScores(section_scores)
    IN  IF valid_scores = <<>> THEN None ELSE Num(round_mean(valid_scores))

\* overall_score of generate_pdf_report; its section_scores hold 0 for a
\* section without a score.
PdfOverallScore(section_scores) ==
    LET valid_scores == ValidScores(section_scores)
    IN  IF valid_scores = <<>> THEN 0 ELSE round_mean(valid_scores)

(***************************************************************************)
(* Specification of the scores: section scores over tables in which only   *)
(* the last athlete can miss a reading, overall scores over every          *)
(* combination of section scores.                                          *)
(***************************************************************************)
SectionScoreValues == {None} \cup {Num(score) : score \in 0 .. 5}
ReportScoreValues == {Num(score) : score \in 0 .. 5}

InitOverall ==
    /\ call = NoCall
    /\ session_state = EmptySessionState
    /\ cols = {"Name", "Category", "Date", "Height", "Weight"}
    /\ \E cells \in [1 .. MaxAthletes -> [{"Height", "Weight"} -> SectionCells]] :
          /\ \A i \in 1 .. (MaxAthletes - 1), c \in {"Height", "Weight"} : cells[i][c] # NaN
          /\ df = SectionTable(MaxAthletes, {"Height", "Weight"}, cells)

CallCalculateOverallScore ==
    /\ Idle
    /\ \E section_scores \in [SectionNames -> SectionScoreValues] :
          call' = Call("calculate_overall_score", "", "", 0, <<>>, FALSE,
                       calculate_overall_score(section_scores), NoDate)
                    @@ [section_scores |-> section_scores]
    /\ UNCHANGED <<df, cols, session_state>>

CallGeneratePdfReport ==
    /\ Idle
    /\ \E player \in SectionPlayers, section_scores \in [SectionNames -> ReportScoreValues] :
          call' = Call("generate_pdf_report", player, "", 0, <<>>, FALSE,
                       Num(PdfOverallScore(section_scores)), NoDate)
                    @@ [section_scores |-> section_scores]
    /\ UNCHANGED <<df, cols, session_state>>

NextOverall ==
    \/ CallCalculateSectionScore
    \/ CallCalculateOverallScore
    \/ CallGeneratePdfReport
    \/ Discard

SpecOverall == InitOverall /\ [][NextOverall]_vars

(***************************************************************************)
(* Claims about the overall score.                                         *)
(***************************************************************************)
IsOverallCall == call.op = "calculate_overall_score"
IsReportCall == call.op = "generate_pdf_report"

\* The sections whose score is present: not None and greater than 0.
PresentSections ==
    {section \in SectionNames :
        call.section_scores[section] # None /\ call.section_scores[section].v > 0}

RECURSIVE SumOver(_, _)
SumOver(sections, section_scores) ==
    IF sections = {} THEN 0
    ELSE LET section == CHOOSE x \in sections : TRUE
         IN  section_scores[section].v + SumOver(sections \ {section}, section_scores)

\* C12: calculate_overall_score returns the mean, rounded to the nearest
\* integer, of the present section scores only; sections {3, 5, absent}
\* give 4; no present section gives no overall score.
C12_OverallMean ==
    IsOverallCall =>
        LET n == Cardinality(PresentSections)
            total == SumOver(PresentSections, call.section_scores)
        IN  /\ IF n = 0 THEN call.ret = None
               ELSE /\ call.ret.k = "num"
                    /\ 2 * (n * call.ret.v - total) <= n
                    /\ 2 * (total - n * call.ret.v) <= n
            /\ (/\ n = 2
                /\ {call.section_scores[section].v : section \in PresentSections} = {3, 5})
                    => call.ret = Num(4)

\* Sections 3, 5 and one absent (None or the placeholder 0): overall 4.
C12_Witness ==
    /\ IsOverallCall
    /\ Cardinality(PresentSections) = 2
    /\ {call.section_scores[section].v : section \in PresentSections} = {3, 5}
    /\ call.ret = Num(4)


\* The mean total / n lies exactly halfway between two integers and the
\* rounded score is the even one of the two.
HalfwayToEven(n, total, rounded) ==
    (n > 0 /\ (2 * total) % n = 0 /\ ((2 * total) \div n) % 2 = 1) =>
        /\ rounded % 2 = 0
        /\ \/ 2 * (n * rounded - total) = n
           \/ 2 * (total - n * rounded) = n

\* C20: the section score, the overall score and the overall score
\* recomputed by generate_pdf_report round a mean that is exactly halfway
\* between two integers to the even one (2.5 to 2, 3.5 to 4, 4.5 to 4).
C20_HalfToEven ==
    /\ IsSectionCall =>
          HalfwayToEven(Len(AvailableScores), SumSeq(AvailableScores), call.ret.v)
    /\ (IsOverallCall \/ IsReportCall) =>
          /\ HalfwayToEven(Cardinality(PresentSections),
                           SumOver(PresentSections, call.section_scores), call.ret.v)
          /\ \A pair \in {<<2, 3, 2>>, <<3, 4, 4>>, <<4, 5, 4>>} :
                (/\ Cardinality(PresentSections) = 2
                 /\ {call.section_scores[section].v : section \in PresentSections}
                        = {pair[1], pair[2]})
                    => call.ret = Num(pair[3])

\* An athlete scoring 4 and 5 on the two metrics of a section: mean 4.5,
\* section score 4.
C20_Witness ==
    /\ IsSectionCall
    /\ AvailableScores = <<4, 5>>
    /\ call.ret = Num(4)


(***************************************************************************)
(* Progress analysis: analyze_progress.                                    *)
(***************************************************************************)
\* One entry of the metric dictionaries of generate_personalized_feedback.
Metric(name, reverse) == [name |-> name, reverse |-> reverse]

agility_metrics ==
    << Metric("10m_Sprint", TRUE), Metric("505_Test_Forward", TRUE),
       Metric("505_Test_Backward", TRUE), Metric("CODD", TRUE) >>

jumping_metrics ==
    << Metric("BJ", FALSE), Metric("SH", TRUE), Metric("SJ", FALSE),
       Metric("CMJ", FALSE), Metric("RJ", FALSE) >>

\* {**agility_metrics, **jumping_metrics}
all_metrics == agility_metrics \o jumping_metrics

\* The result dictionary of analyze_progress.
Progress(improved_metrics, declined_metrics, stable_metrics) ==
    [has_comparison |-> Len(improved_metrics \o declined_metrics \o stable_metrics) > 0,
     improved_metrics |-> improved_metrics,
     declined_metrics |-> declined_metrics,
     stable_metrics |-> stable_metrics]

NoProgress == Progress(<<>>, <<>>, <<>>)

\* float(row[metric]) raises ValueError for a string that is no number.
FloatRaises(c) == c.k = "str"

\* Variant of the scan that accepts a reading of 0.
ScannedRows_keeping_zero(sorted_data, metric) ==
    SelectSeq(sorted_data, LAMBDA row : /\ notna(CellOf(row, metric))
                                        /\ NotEmptyString(CellOf(row, metric)))

\* The rows of sorted_data that pass the test of the scan:
\*   pd.notna(row[metric]) and row[metric] != 0 and row[metric] != ''
ScannedRows(sorted_data, metric) ==
    SelectSeq(sorted_data, LAMBDA row : /\ notna(CellOf(row, metric))
                                        /\ NotZero(CellOf(row, metric))
                                        /\ NotEmptyString(CellOf(row, metric)))

\* latest_value and previous_value after the scan, and whether float() raised.
Selected(latest_value, previous_value, raised) ==
    [latest_value |-> latest_value, previous_value |-> previous_value, raised |-> raised]

\* Variant that takes the two latest rows, and nothing when one is invalid.
LatestAndPrevious_of_two_latest_rows(sorted_data, metric) ==
    IF Len(sorted_data) >= 2
       /\ ScannedRows(SubSeq(sorted_data, 1, 2), metric) = SubSeq(sorted_data, 1, 2)
    THEN Selected(CellOf(sorted_data[1], metric), CellOf(sorted_data[2], metric), FALSE)
    ELSE Selected(None, None, FALSE)

\* The scan of sorted_data.iterrows(): the first accepted row gives
\* latest_value, the second previous_value, then the loop breaks.
LatestAndPrevious(sorted_data, metric) ==
    LET rows == ScannedRows(sorted_data, metric)
    IN  IF rows = <<>> THEN Selected(None, None, FALSE)
        ELSE IF FloatRaises(CellOf(rows[1], metric)) THEN Selected(None, None, TRUE)
        ELSE IF Len(rows) = 1 THEN Selected(CellOf(rows[1], metric), None, FALSE)
        ELSE IF FloatRaises(CellOf(rows[2], metric))
             THEN Selected(CellOf(rows[1], metric), None, TRUE)
        ELSE Selected(CellOf(rows[1], metric), CellOf(rows[2], metric), FALSE)

\* Variant that ignores the direction of the metric.
ChangeNumerator_ignoring_direction(previous_value, latest_value, is_reverse) ==
    latest_value - previous_value

\* The numerator of change_ratio.
ChangeNumerator(previous_value, latest_value, is_reverse) ==
    IF is_reverse THEN previous_value - latest_value ELSE latest_value - previous_value

\* Variant with closed thresholds.
Classify_closed_thresholds(numerator, previous_value) ==
    IF previous_value > 0
    THEN IF 50 * numerator >= previous_value THEN "improved"
         ELSE IF 50 * numerator <= 0 - previous_value THEN "declined"
         ELSE "stable"
    ELSE IF 50 * numerator <= previous_value THEN "improved"
         ELSE IF 50 * numerator >= 0 - previous_value THEN "declined"
         ELSE "stable"

\* The list the metric is appended to, for change_ratio = numerator /
\* previous_value and improvement_threshold = 0.02 = 1/50:
\*   change_ratio > 0.02: improved; change_ratio < -0.02: declined; else stable
Classify(numerator, previous_value) ==
    IF previous_value > 0
    THEN IF 50 * numerator > previous_value THEN "improved"
         ELSE IF 50 * numerator < 0 - previous_value THEN "declined"
         ELSE "stable"
    ELSE IF 50 * numerator < previous_value THEN "improved"
         ELSE IF 50 * numerator > 0 - previous_value THEN "declined"
         ELSE "stable"

\* The outcome of one metric: "none" (no comparison), "raise" (an exception
\* leaves the loop), or the list the metric is appended to.  A division by
\* 0.0 raises ZeroDivisionError; an infinite previous_value makes
\* change_ratio nan (stable), an infinite latest_value makes it +inf or -inf.
MetricOutcome(selected, is_reverse) ==
    IF selected.raised THEN "raise"
    ELSE IF selected.latest_value = None \/ selected.previous_value = None THEN "none"
    ELSE IF selected.previous_value = Num(0) THEN "raise"
    ELSE IF selected.previous_value.k = "inf" THEN "stable"
    ELSE IF selected.latest_value.k = "inf"
         THEN (IF is_reverse = (selected.previous_value.v > 0) THEN "declined" ELSE "improved")
    ELSE Classify(ChangeNumerator(selected.previous_value.v, selected.latest_value.v,
                                  is_reverse),
                  selected.previous_value.v)

\* What one run of analyze_progress computes: the returned dictionary, the
\* readings the scan selects for each metric (given for every metric, also
\* when an exception ends the loop before it), and whether the except
\* branch ran.
ProgressRun(result, selected, raised) ==
    [result |-> result, selected |-> selected, raised |-> raised]

MetricNames == {all_metrics[k].name : k \in 1 .. Len(all_metrics)}

\* The runs analyze_progress can make, one per order the sort can produce.
\* A metric that is no column of the table is skipped (continue).
analyze_progress(player_data, columns) ==
    IF Len(player_data) < 2
    THEN {ProgressRun(NoProgress, [m \in MetricNames |-> Selected(None, None, FALSE)], FALSE)}
    ELSE IF "Date" \notin columns
    THEN {ProgressRun(NoProgress, [m \in MetricNames |-> Selected(None, None, FALSE)], TRUE)}
    ELSE { LET selected == [m \in MetricNames |->
                               IF m \in columns THEN LatestAndPrevious(sorted_data, m)
                               ELSE Selected(None, None, FALSE)]
               outcome(k) ==
                   IF all_metrics[k].name \notin columns THEN "none"
                   ELSE MetricOutcome(selected[all_metrics[k].name], all_metrics[k].reverse)
               listed(class) ==
                   LET in_class == SelectSeq([k \in 1 .. Len(all_metrics) |-> k],
                                             LAMBDA k : outcome(k) = class)
                   IN  [i \in 1 .. Len(in_class) |-> all_metrics[in_class[i]].name]
           IN  IF \E k \in 1 .. Len(all_metrics) : outcome(k) = "raise"
               THEN ProgressRun(NoProgress, selected, TRUE)
               ELSE ProgressRun(Progress(listed("improved"), listed("declined"),
                                         listed("stable")),
                                selected, FALSE) :
           sorted_data \in SortValuesDateDescending(player_data) }

(***************************************************************************)
(* Specification of the progress analysis: the records of one athlete      *)
(* over a lower-is-better and a higher-is-better metric column, as the     *)
(* loader leaves them (numeric or missing), the sessions in ascending or   *)
(* descending table order.                                                 *)
(***************************************************************************)
MaxProgressRows == 3

ProgressMetrics == {"10m_Sprint", "BJ"}
ProgressCells ==
    [m \in ProgressMetrics |->
        IF m = "10m_Sprint" THEN {NaN, Num(0), Num(49), Num(50), Num(51)}
        ELSE {Num(49), Num(50), Num(51)}]
ProgressOrders == {"ascending", "descending"}

ProgressDate(order, n, i) ==
    IF order = "ascending" THEN DateOfRow(i) ELSE DateOfRow(n + 1 - i)

ProgressTable(n, order, cells) ==
    [i \in 1 .. n |-> Row(i - 1, "A", "U12", ProgressDate(order, n, i), cells[i])]

InitProgress ==
    /\ call = NoCall
    /\ session_state = EmptySessionState
    /\ cols = {"Name", "Category", "Date"} \cup ProgressMetrics
    /\ \E n \in 0 .. MaxProgressRows, order \in ProgressOrders :
          \E cells \in [1 .. n -> {row \in [ProgressMetrics -> UNION {ProgressCells[m] : m \in ProgressMetrics}] :
                                      \A m \in ProgressMetrics : row[m] \in ProgressCells[m]}] :
              df = ProgressTable(n, order, cells)

CallAnalyzeProgress ==
    /\ Idle
    /\ \E run \in analyze_progress(PlayerData(df, "A"), cols) :
          call' = Call("analyze_progress", "A", "", 0, <<>>, FALSE, None, NoDate)
                    @@ [result |-> run.result, selected |-> run.selected,
                        raised |-> run.raised]
    /\ UNCHANGED <<df, cols, session_state>>

NextProgress == CallAnalyzeProgress \/ Discard

SpecProgress == InitProgress /\ [][NextProgress]_vars

(***************************************************************************)
(* Claims about the progress analysis.                                     *)
(***************************************************************************)
IsProgressCall == call.op = "analyze_progress"

\* The elements of a list.
Range(list) == {list[i] : i \in 1 .. Len(list)}

\* The metrics of the three lists of the result of the call.
Improved == Range(call.result.improved_metrics)
Declined == Range(call.result.declined_metrics)
Stable == Range(call.result.stable_metrics)

\* The pairs <<latest position, previous position>> of the athlete's two
\* most recent valid readings of a metric: both valid, the latest not older
\* than the previous, and no other valid reading strictly newer than the
\* previous one or than the latest one.
TwoMostRecentValid(data, column) ==
    LET valid == ValidPositions(data, column)
    IN  {pair \in valid \X valid :
            /\ pair[1] # pair[2]
            /\ ~DateLess(data[pair[1]].Date, data[pair[2]].Date)
            /\ \A other \in valid \ {pair[1], pair[2]} :
                  ~DateLess(data[pair[2]].Date, data[other].Date)}

\* C13: for each metric the readings compared are the athlete's two most
\* recent valid readings by session date, invalid (missing, empty, zero)
\* readings skipped; with fewer than two valid readings the metric is in
\* none of the three lists.
C13_TwoMostRecentValid ==
    IsProgressCall =>
        \A m \in ProgressMetrics :
            LET valid == ValidPositions(CallData, m)
                compared == m \in Improved \cup Declined \cup Stable
            IN  /\ Cardinality(valid) < 2 => ~compared
                /\ Cardinality(valid) >= 2 =>
                      /\ compared
                      /\ \E pair \in TwoMostRecentValid(CallData, m) :
                            /\ call.selected[m].latest_value = CellOf(CallData[pair[1]], m)
                            /\ call.selected[m].previous_value = CellOf(CallData[pair[2]], m)

\* Three sessions, the middle one by date invalid for the sprint: the
\* latest sprint reading is compared with the oldest one.
C13_Witness ==
    /\ IsProgressCall
    /\ Len(df) = 3
    /\ \E i, j, k \in 1 .. 3 :
          /\ DateLess(df[i].Date, df[j].Date) /\ DateLess(df[j].Date, df[k].Date)
          /\ CellOf(df[j], "10m_Sprint") \in {NaN, Num(0)}
          /\ call.selected["10m_Sprint"].latest_value = CellOf(df[k], "10m_Sprint")
          /\ call.selected["10m_Sprint"].previous_value = CellOf(df[i], "10m_Sprint")
          /\ CellOf(df[k], "10m_Sprint") # CellOf(df[i], "10m_Sprint")
          /\ "10m_Sprint" \in Improved \cup Declined \cup Stable


\* The relative change numerator / previous (previous # 0) is above 2%,
\* or below -2%: both sides multiplied by previous squared.
ChangeAbove2Percent(numerator, previous) == 50 * numerator * previous > previous * previous
ChangeBelowMinus2Percent(numerator, previous) ==
    50 * numerator * previous < 0 - (previous * previous)

\* The gain of a metric from previous to latest: the decrease of a
\* lower-is-better metric, the increase of a higher-is-better one.
GainOf(m, previous, latest) ==
    IF m \in LowerIsBetterMetrics THEN previous - latest ELSE latest - previous

C15_Symmetric ==
    (/\ IsProgressCall
     /\ call.selected["10m_Sprint"].previous_value # None
     /\ call.selected["10m_Sprint"] = call.selected["BJ"]) =>
        LET previous == call.selected["BJ"].previous_value.v
            latest == call.selected["BJ"].latest_value.v
        IN  /\ "10m_Sprint" \in Improved <=> "BJ" \in Declined
            /\ "10m_Sprint" \in Declined <=> "BJ" \in Improved
            /\ "10m_Sprint" \in Stable <=> "BJ" \in Stable
            /\ ChangeAbove2Percent(previous - latest, previous) =>
                  "10m_Sprint" \in Improved /\ "BJ" \in Declined

\* Both metrics go from 51 to 49: the sprint improved, the jump declined.
C15_Witness ==
    /\ IsProgressCall
    /\ call.selected["10m_Sprint"] = Selected(Num(49), Num(51), FALSE)
    /\ call.selected["BJ"] = Selected(Num(49), Num(51), FALSE)
    /\ "10m_Sprint" \in Improved
    /\ "BJ" \in Declined

\* The positions of the readings of a column that are not missing.
NonMissingPositions(data, column) ==
    {i \in 1 .. Len(data) : CellOf(data[i], column) # NaN}

\* C16: analyze_progress never divides by a previous value of 0: the call
\* does not fail, and the previous value of every compared metric is a
\* non-zero reading of the athlete.
C16_NoZeroPrevious ==
    IsProgressCall =>
        /\ ~call.raised
        /\ \A m \in ProgressMetrics :
              m \in Improved \cup Declined \cup Stable =>
                  /\ call.selected[m].previous_value # Num(0)
                  /\ \E i \in ValidPositions(CallData, m) :
                        call.selected[m].previous_value = CellOf(CallData[i], m)

\* The sprint reading before the latest one is 0: the one before that is
\* taken as previous, and the metric is compared.
C16_Witness ==
    /\ IsProgressCall
    /\ Len(df) = 3
    /\ \E i, j, k \in 1 .. 3 :
          /\ DateLess(df[i].Date, df[j].Date) /\ DateLess(df[j].Date, df[k].Date)
          /\ CellOf(df[j], "10m_Sprint") = Num(0)
          /\ call.selected["10m_Sprint"].previous_value = CellOf(df[i], "10m_Sprint")
          /\ CellOf(df[i], "10m_Sprint") # Num(0)
    /\ "10m_Sprint" \in Improved \cup Declined \cup Stable


(***************************************************************************)
(* Specification of the progress analysis over a table handed to           *)
(* analyze_progress as it is, whose sprint column can hold a string (the   *)
(* empty string, or text that is no number).                               *)
(***************************************************************************)
RawCells ==
    [m \in ProgressMetrics |->
        IF m = "10m_Sprint" THEN {EmptyStr, TextStr, Num(49), Num(51)}
        ELSE {Num(49), Num(51)}]

InitProgressRaw ==
    /\ call = NoCall
    /\ session_state = EmptySessionState
    /\ cols = {"Name", "Category", "Date"} \cup ProgressMetrics
    /\ \E n \in 0 .. MaxProgressRows :
          \E cells \in [1 .. n -> {row \in [ProgressMetrics -> UNION {RawCells[m] : m \in ProgressMetrics}] :
                                      \A m \in ProgressMetrics : row[m] \in RawCells[m]}] :
              df = ProgressTable(n, "ascending", cells)

SpecProgressRaw == InitProgressRaw /\ [][NextProgress]_vars

\* The readings the analysis of a metric converts to numbers: the two most
\* recent ones that are not missing, not 0 and not the empty string.
ConvertedReadings(data, column) ==
    {CellOf(data[pair[k]], column) :
        pair \in TwoMostRecentValid(data, column), k \in 1 .. 2}
    \cup (IF Cardinality(ValidPositions(data, column)) = 1
          THEN {CellOf(data[i], column) : i \in ValidPositions(data, column)}
          ELSE {})

\* The analysis of the metric fails: one of these readings is no number.
AnalysisFails(data, column) == TextStr \in ConvertedReadings(data, column)

\* C17: a failure while analysing one metric makes only that metric
\* contribute no comparison: a metric with two valid readings whose own
\* analysis does not fail is classified, whatever happens to the others.
C17_FailureIsolated ==
    IsProgressCall =>
        \A m \in ProgressMetrics :
            IF AnalysisFails(CallData, m) THEN m \notin Improved \cup Declined \cup Stable
            ELSE Cardinality(ValidPositions(CallData, m)) >= 2 =>
                    m \in Improved \cup Declined \cup Stable


(***************************************************************************)
(* Batch entry point: generate_all_pdf_reports(df, config).                *)
(***************************************************************************)
\* df['Name'].dropna().unique(): the names in order of first appearance.
RECURSIVE UniqueNames(_, _)
UniqueNames(data, k) ==
    IF k > Len(data) THEN <<>>
    ELSE IF \E j \in 1 .. (k - 1) : data[j].Name = data[k].Name
         THEN UniqueNames(data, k + 1)
         ELSE <<data[k].Name>> \o UniqueNames(data, k + 1)

\* Variant in which the first failure ends the batch.
generate_all_pdf_reports_stopping_at_failure(data, failed) ==
    LET all_players == UniqueNames(data, 1)
        stopped == {k \in 1 .. Len(all_players) : all_players[k] \in failed}
    IN  IF stopped = {} THEN all_players
        ELSE SubSeq(all_players, 1, (CHOOSE k \in stopped : \A j \in stopped : k <= j) - 1)

\* The athletes whose report is written to the archive, in order: every
\* name of the table whose generate_pdf_report returned the bytes of a
\* report; `failed` are the athletes for whom it returned None or raised
\* (the loop continues with the next athlete).
generate_all_pdf_reports(data, failed) ==
    SelectSeq(UniqueNames(data, 1), LAMBDA player_name : player_name \notin failed)

(***************************************************************************)
(* Specification of the batch: the tables of the cohort specification,     *)
(* report generation failing for any set of athletes.                      *)
(***************************************************************************)
CallGenerateAllPdfReports ==
    /\ Idle
    /\ \E failed \in SUBSET CohortNames :
          call' = Call("generate_all_pdf_reports", "", "", 0, <<>>, FALSE, None, NoDate)
                    @@ [reports |-> generate_all_pdf_reports(df, failed), failed |-> failed]
    /\ UNCHANGED <<df, cols, session_state>>

NextBatch == CallGenerateAllPdfReports \/ Discard

SpecBatch == InitCohort /\ [][NextBatch]_vars

(***************************************************************************)
(* Claims about the batch.                                                 *)
(***************************************************************************)
IsBatchCall == call.op = "generate_all_pdf_reports"

\* How many reports the archive holds for an athlete.
ReportsOf(name) == Cardinality({i \in 1 .. Len(call.reports) : call.reports[i] = name})

\* C18: the batch produces one result for each athlete of the table that
\* matches the cohort-bracket filter (every athlete with a category when no
\* filter is given) and whose report could be generated, and no result for
\* an athlete without category information.
C18_BatchResults ==
    IsBatchCall =>
        \A name \in CohortNames :
            IF PlayerData(df, name) = <<>> \/ LabelsOf(name) = {} THEN ReportsOf(name) = 0
            ELSE IF name \in call.failed THEN ReportsOf(name) = 0
            ELSE ReportsOf(name) = 1


(***************************************************************************)
(* Comparison table: safe_mean, get_target_value_for_player,               *)
(* create_comparison_table.                                                *)
(***************************************************************************)
\* A mean as the pair of the sum and the number of the values averaged.
Mean(total, count) == [total |-> total, count |-> count]

\* safe_mean(series) of the column of a table: the mean of the cells that
\* are numbers after pd.to_numeric and not 0; None without any; +inf when
\* one of them is infinite.
safe_mean(data, column) ==
    LET clean_series == SelectSeq([i \in 1 .. Len(data) |-> to_numeric(CellOf(data[i], column))],
                                  LAMBDA c : notna(c) /\ NotZero(c))
    IN  IF clean_series = <<>> THEN None
        ELSE IF \E i \in 1 .. Len(clean_series) : clean_series[i] = Inf THEN Inf
        ELSE Mean(SumSeq([i \in 1 .. Len(clean_series) |-> clean_series[i].v]),
                  Len(clean_series))

\* get_target_values(), in tenths of the unit of the metric; the body
\* composition metrics have no target.
Target(U15, U12) == [U15 |-> U15, U12 |-> U12]

get_target_values ==
    [metric \in MetricNames |->
        CASE metric = "10m_Sprint" -> Target(17, 19)
          [] metric = "505_Test_Forward" -> Target(28, 32)
          [] metric = "505_Test_Backward" -> Target(30, 30)
          [] metric = "CODD" -> Target(10, 10)
          [] metric = "BJ" -> Target(800, 600)
          [] metric = "SH" -> Target(150, 150)
          [] metric = "SJ" -> Target(400, 350)
          [] metric = "CMJ" -> Target(500, 450)
          [] metric = "RJ" -> Target(20, 18)]

\* The category labels whose text contains 'U12' or '12'.
LabelsOfU12 == {"U12"}

\* get_target_value_for_player: the target of the athlete's bracket, U12
\* for a label of LabelsOfU12, U15 for every other label and without one.
get_target_value_for_player(player_data, columns, metric) ==
    IF metric \notin DOMAIN get_target_values THEN None
    ELSE IF PlayerCategory(player_data, columns) \in LabelsOfU12
         THEN Num(get_target_values[metric].U12)
         ELSE Num(get_target_values[metric].U15)

\* The dates measurement_date can be for a metric with a latest value: the
\* date of the first row, by date descending, of the rows whose cell is not
\* missing and not 0.
MeasurementDates(player_data, columns, metric) ==
    LET valid_data == SelectSeq(player_data, LAMBDA row : /\ notna(CellOf(row, metric))
                                                          /\ NotZero(CellOf(row, metric)))
    IN  IF valid_data = <<>> \/ "Date" \notin columns THEN {NA}
        ELSE { IF latest_valid[1].Date # NaT THEN strftime(latest_valid[1].Date) ELSE NA :
               latest_valid \in SortValuesDateDescending(valid_data) }

\* One row of the comparison table.
ComparisonRow(player_val, measurement_date, best, avg_val, target_val) ==
    [player_val |-> player_val, measurement_date |-> measurement_date, best |-> best,
     avg_val |-> avg_val, target_val |-> target_val]

\* The rows create_comparison_table can build for one metric (a column of
\* the table).
create_comparison_table(player_data, all_data, columns, metric) ==
    UNION { { ComparisonRow(player_val, measurement_date,
                            safe_get_best_value(player_data, columns, metric),
                            safe_mean(all_data, metric),
                            get_target_value_for_player(player_data, columns, metric)) :
              measurement_date \in (IF player_val = None THEN {NA}
                                    ELSE MeasurementDates(player_data, columns, metric)) } :
            player_val \in safe_get_value(player_data, columns, metric) }

(***************************************************************************)
(* Specification of an analysis pass: any sequence of calls of the engine  *)
(* functions on one loaded table of two athletes.                          *)
(***************************************************************************)
PassCategories == {NoCategory, "U12"}

InitPass ==
    /\ call = NoCall
    /\ session_state = EmptySessionState
    /\ cols = {"Name", "Category", "Date", CohortMetric}
    /\ \E n \in 0 .. MaxRows :
          \E names \in [1 .. n -> CohortNames],
             categories \in [1 .. n -> PassCategories],
             cells \in [1 .. n -> CohortCells] :
                df = CohortTable(n, names, categories, cells)

\* Variant in which sort_values sorts the frame it is called on in place.
FrameAfter_sorted_in_place(op, data) ==
    IF op \in {"safe_get_value", "analyze_progress", "create_comparison_table"}
    THEN CHOOSE sorted \in SortValuesDateDescending(data) : TRUE
    ELSE data

\* The table of the caller when an engine function returns.  The functions
\* select rows by boolean indexing, data[...], and sort with
\* sort_values('Date', ascending=False), inplace left False; both build a
\* new frame, and no function assigns to a frame it was given.
FrameAfter(op, data) == data

\* An engine function returns `ret` to the caller.
EngineReturn(op, player, ret) ==
    /\ call' = Call(op, player, CohortMetric, 0, <<>>, FALSE, None, NoDate) @@ [result |-> ret]
    /\ df' = FrameAfter(op, df)
    /\ cols' = cols
    /\ session_state' = session_state

PassSafeGetValue ==
    /\ Idle
    /\ \E player \in CohortNames :
          \E value \in safe_get_value(PlayerData(df, player), cols, CohortMetric) :
              EngineReturn("safe_get_value", player, value)

PassSafeGetBestValue ==
    /\ Idle
    /\ \E player \in CohortNames :
          EngineReturn("safe_get_best_value", player,
                       safe_get_best_value(PlayerData(df, player), cols, CohortMetric))

PassCalculateSectionScore ==
    /\ Idle
    /\ \E player \in CohortNames, section \in SectionNames :
          \E section_score \in
                calculate_section_score(PlayerData(df, player), df, cols,
                                        get_test_config[section].score_metrics,
                                        get_test_config[section].reverse_scoring) :
              EngineReturn("calculate_section_score", player, section_score)

PassGetIndividualMetricScore ==
    /\ Idle
    /\ \E player \in CohortNames, reverse_scoring \in BOOLEAN :
          \E out \in get_individual_metric_score(PlayerData(df, player), df, cols,
                                                 CohortMetric, reverse_scoring) :
              EngineReturn("get_individual_metric_score", player, out.score)

PassAnalyzeProgress ==
    /\ Idle
    /\ \E player \in CohortNames :
          \E run \in analyze_progress(PlayerData(df, player), cols) :
              EngineReturn("analyze_progress", player, run.result)

PassCreateComparisonTable ==
    /\ Idle
    /\ \E player \in CohortNames :
          \E row \in create_comparison_table(PlayerData(df, player), df, cols, CohortMetric) :
              EngineReturn("create_comparison_table", player, row)

NextPass ==
    \/ PassSafeGetValue
    \/ PassSafeGetBestValue
    \/ PassCalculateSectionScore
    \/ PassGetIndividualMetricScore
    \/ PassAnalyzeProgress
    \/ PassCreateComparisonTable
    \/ Discard

SpecPass == InitPass /\ [][NextPass]_vars

\* C19: the engine is read-only over the loaded table: no call of
\* safe_get_value, safe_get_best_value, calculate_section_score,
\* get_individual_metric_score, analyze_progress or create_comparison_table
\* changes a record of the table (values, dates, categories, row order) or
\* its columns, so the table is the same after any sequence of calls.
C19_ReadOnly == [][df' = df /\ cols' = cols]_vars

\* analyze_progress has returned a comparison for an athlete whose records
\* are in ascending order of date in the table (sorted descending by the
\* call).
C19_Witness ==
    /\ call.op = "analyze_progress"
    /\ call.result.has_comparison
    /\ Len(df) >= 2
    /\ \A i \in 1 .. (Len(df) - 1) : DateLess(df[i].Date, df[i + 1].Date)


(***************************************************************************)
(* Claims about records without a session date.                            *)
(***************************************************************************)
\* C21: when none of the athlete's valid records carries a session date,
\* safe_get_value returns the value of the last valid record of the table
\* (last-inserted wins); when some valid record is dated, the value returned
\* is that of a dated valid record, never of an undated one.  (Stated for
\* ordinary metrics whose readings are finite numbers, empty or missing.)
C21_UndatedFallback ==
    (/\ IsGetValueCall
     /\ call.column \in cols
     /\ call.column # ZeroExemptMetric
     /\ ReadingsFinite(CallData, call.column)
     /\ ValidPositions(CallData, call.column) # {}) =>
        LET valid == ValidPositions(CallData, call.column)
            dated == {i \in valid : CallData[i].Date # NaT}
            last == CHOOSE i \in valid : \A j \in valid : j <= i
        IN  IF dated = {} THEN call.ret = CellOf(CallData[last], call.column)
            ELSE \E i \in dated : call.ret = CellOf(CallData[i], call.column)


(***************************************************************************)
(* Claims about cohorts of fewer than two values.                          *)
(***************************************************************************)
\* The valid latest values of a metric in the table of the section
\* specification (one record per athlete, all of one category), in the
\* order of the athletes.
ValidValuesOf(metric) ==
    IF metric \notin cols THEN <<>>
    ELSE LET valid == SelectSeq(df, LAMBDA row : IsValidReading(CellOf(row, metric)))
         IN  [i \in 1 .. Len(valid) |-> CellOf(valid[i], metric).v]

\* The metrics of the section of the call for which the athlete has a valid
\* value and at least two athletes of the cohort have one.
ScorableMetrics ==
    SelectSeq(get_test_config[call.column].score_metrics,
              LAMBDA metric : /\ metric \in cols
                              /\ CallData # <<>>
                              /\ IsValidReading(CellOf(CallData[1], metric))
                              /\ Len(ValidValuesOf(metric)) >= 2)

\* C22: a metric for which fewer than two athletes of the cohort have a
\* valid latest value has no score (get_individual_metric_score returns
\* None) and is left out of the section mean: the section score is the
\* rounded mean of the scores of the other metrics, no score when there is
\* none; the metric does not count as a neutral 3.
C22_SmallCohortLeftOut ==
    IsSectionCall =>
        LET score_metrics == get_test_config[call.column].score_metrics
            scores == [k \in 1 .. Len(ScorableMetrics) |->
                          calculate_individual_score(CellOf(CallData[1], ScorableMetrics[k]).v,
                                                     ValidValuesOf(ScorableMetrics[k]),
                                                     call.reverse)]
            n == Len(scores)
            total == SumSeq(scores)
        IN  /\ \A k \in 1 .. Len(score_metrics) :
                  Len(ValidValuesOf(score_metrics[k])) < 2 =>
                      \A out \in get_individual_metric_score(CallData, df, cols,
                                                             score_metrics[k], call.reverse) :
                          out.score = None
            /\ IF n = 0 THEN call.ret = None
               ELSE /\ call.ret.k = "num"
                    /\ 2 * (n * call.ret.v - total) <= n
                    /\ 2 * (total - n * call.ret.v) <= n

\* The athlete is the only one with a height and scores 5 on the weight:
\* the section score is 5, where a neutral 3 for the height would give 4.
C22_Witness ==
    /\ IsSectionCall
    /\ call.column = "Body Composition"
    /\ "Height" \in cols
    /\ ValidValuesOf("Height") = <<2>>
    /\ IsValidReading(CellOf(CallData[1], "Height"))
    /\ ScorableMetrics = <<"Weight">>
    /\ call.ret = Num(5)


(***************************************************************************)
(* The detail table of generate_pdf_report: latest value, change against   *)
(* the previous value, category average and target of a metric.            *)
(***************************************************************************)
\* category_data of generate_pdf_report: the whole table for an athlete
\* without category, else the rows of the athlete's category.
PdfCategoryData(player_data, data, columns) ==
    CategoryData(data, PlayerCategory(player_data, columns))

\* category_avg: safe_mean(category_data[metric_key]); the side hop shows "-".
PdfCategoryAverage(player_data, data, columns, metric) ==
    IF metric = ZeroExemptMetric THEN None
    ELSE safe_mean(PdfCategoryData(player_data, data, columns), metric)

\* The outcome "the report could not be built" (an exception inside
\* generate_pdf_report: it returns None).
ReportFailed == [k |-> "failed", v |-> 0]

\* Variant that takes the reading of the second row by date, valid or not.
PdfPreviousValue_of_second_row(sorted_player_data, metric) ==
    IF ~notna(CellOf(sorted_player_data[2], metric)) THEN None
    ELSE IF FloatRaises(CellOf(sorted_player_data[2], metric)) THEN ReportFailed
    ELSE CellOf(sorted_player_data[2], metric)

\* prev_val for one order of the sort of the athlete's two or more records:
\* the second of the rows whose reading is not missing and not 0.
PdfPreviousValue(sorted_player_data, metric) ==
    LET valid_data == SelectSeq(sorted_player_data,
                                LAMBDA row : /\ notna(CellOf(row, metric))
                                             /\ NotZero(CellOf(row, metric)))
    IN  IF Len(valid_data) < 2 THEN None
        ELSE IF FloatRaises(CellOf(valid_data[2], metric)) THEN ReportFailed
        ELSE CellOf(valid_data[2], metric)

\* The values prev_val can have.
PdfPreviousValues(player_data, columns, metric) ==
    IF Len(player_data) < 2 THEN {None}
    ELSE IF "Date" \notin columns THEN {ReportFailed}
    ELSE {PdfPreviousValue(sorted_player_data, metric) :
            sorted_player_data \in SortValuesDateDescending(player_data)}

\* The arrow shown for a change of at most 0.01.
NoChange == [k |-> "arrow", v |-> 0]

\* change_display: "-" without a latest or a previous value, the arrow for
\* a difference of at most 0.01 either way, else the signed difference
\* player_val - prev_val (minus infinity against an infinite prev_val).
PdfChange(player_val, prev_val) ==
    IF player_val = None \/ prev_val = None THEN None
    ELSE IF prev_val = Inf THEN [k |-> "inf", v |-> 0 - 1]
    ELSE IF player_val.v = prev_val.v THEN NoChange
    ELSE Num(player_val.v - prev_val.v)

\* One row of the detail table.
DetailRow(player_val, prev_val, change, category_avg, target_val) ==
    [player_val |-> player_val, prev_val |-> prev_val, change |-> change,
     category_avg |-> category_avg, target_val |-> target_val]

\* The rows the detail table can hold for a metric that is a column of the
\* table, or ReportFailed.
PdfDetailRows(player_data, data, columns, metric) ==
    UNION { { IF prev_val = ReportFailed THEN ReportFailed
              ELSE DetailRow(player_val, prev_val, PdfChange(player_val, prev_val),
                             PdfCategoryAverage(player_data, data, columns, metric),
                             get_target_value_for_player(player_data, columns, metric)) :
              prev_val \in PdfPreviousValues(player_data, columns, metric) } :
            player_val \in safe_get_value(player_data, columns, metric) }

(***************************************************************************)
(* Specification of the two presentations of an athlete's metric: the      *)
(* comparison table of the dashboard and the detail table of the report.   *)
(* Athlete A is of category U12, athlete B of U12 or U15; the athlete      *)
(* shown is one with records in the table.                                 *)
(***************************************************************************)
ReportCells == {NaN, Num(0), Num(1), Num(3)}

InitReport ==
    /\ call = NoCall
    /\ session_state = EmptySessionState
    /\ cols = {"Name", "Category", "Date", CohortMetric}
    /\ \E n \in 0 .. MaxCohortRows, category_of_B \in {"U12", "U15"} :
          \E names \in [1 .. n -> CohortNames], cells \in [1 .. n -> ReportCells] :
              df = CohortTable(n, names,
                               [i \in 1 .. n |-> IF names[i] = "A" THEN "U12" ELSE category_of_B],
                               cells)

ReportCreateComparisonTable ==
    /\ Idle
    /\ \E player \in CohortNames :
          /\ PlayerData(df, player) # <<>>
          /\ \E row \in create_comparison_table(PlayerData(df, player), df, cols, CohortMetric) :
                call' = Call("create_comparison_table", player, CohortMetric, 0, <<>>, FALSE,
                             None, NoDate) @@ [result |-> row]
    /\ UNCHANGED <<df, cols, session_state>>

ReportGeneratePdfReport ==
    /\ Idle
    /\ \E player \in CohortNames :
          /\ PlayerData(df, player) # <<>>
          /\ \E row \in PdfDetailRows(PlayerData(df, player), df, cols, CohortMetric) :
                call' = Call("generate_pdf_report", player, CohortMetric, 0, <<>>, FALSE,
                             None, NoDate) @@ [result |-> row]
    /\ UNCHANGED <<df, cols, session_state>>

NextReport == ReportCreateComparisonTable \/ ReportGeneratePdfReport \/ Discard

SpecReport == InitReport /\ [][NextReport]_vars

(***************************************************************************)
(* Claims about the two presentations.                                     *)
(***************************************************************************)
IsTableCall == call.op = "create_comparison_table"
IsDetailCall == call.op = "generate_pdf_report"

\* Two averages are equal: both absent, or the same quotient.
SameAverage(a, b) ==
    IF a = None \/ b = None THEN a = b
    ELSE a.total * b.count = b.total * a.count

\* C23: the cohort average of the comparison table is the mean over the
\* records of the athletes of the athlete's category only, and equals the
\* category average of the report for the same athlete and metric.
C23_CohortAverage ==
    IsTableCall =>
        /\ SameAverage(call.result.avg_val,
                       safe_mean(SelectSeq(df, LAMBDA row : row.Category = CallData[1].Category),
                                 call.column))
        /\ SameAverage(call.result.avg_val, PdfCategoryAverage(CallData, df, cols, call.column))

\* C24: the signed difference of the detail table is the athlete's latest
\* valid reading minus the previous one, the previous one being the second
\* most recent valid reading by date, and that previous reading is the one
\* analyze_progress takes as previous_value for the athlete and the metric.
C24_ChangeAgainstPrevious ==
    (IsDetailCall /\ call.result # ReportFailed) =>
        LET pairs == TwoMostRecentValid(CallData, call.column)
            row == call.result
        IN  /\ pairs = {} => (row.prev_val = None /\ row.change = None)
            /\ \A pair \in pairs :
                  LET latest == CellOf(CallData[pair[1]], call.column)
                      previous == CellOf(CallData[pair[2]], call.column)
                  IN  /\ row.player_val = latest
                      /\ row.prev_val = previous
                      /\ row.change = IF latest.v = previous.v THEN NoChange
                                      ELSE Num(latest.v - previous.v)
            /\ \E run \in analyze_progress(CallData, cols) :
                  /\ ~run.raised
                  /\ run.selected[call.column].previous_value = row.prev_val

\* An athlete with an invalid reading between two valid ones: the change
\* is taken against the older valid reading.
C24_Witness ==
    /\ IsDetailCall
    /\ call.result # ReportFailed
    /\ Len(CallData) = 3
    /\ CellOf(CallData[1], call.column) = Num(1)
    /\ CellOf(CallData[2], call.column) = Num(0)
    /\ CellOf(CallData[3], call.column) = Num(3)
    /\ call.result.prev_val = Num(1)
    /\ call.result.change = Num(2)

(***************************************************************************)
(* Narrative feedback: generate_personalized_feedback.  A text is the      *)
(* list of the phrases the function joins; a phrase is named by an         *)
(* identifier, a section or a metric by its key.                           *)
(***************************************************************************)
\* section_scores.get(section, 0)
SectionScore(section_scores, section) == section_scores[section].v

\* valid_section_scores: the sections with a score above 0, in the order of
\* the dictionary.
ValidSectionScores(section_scores) ==
    SelectSeq(SectionOrder, LAMBDA section : SectionScore(section_scores, section) > 0)

\* sum(valid_section_scores.values())
SectionTotal(section_scores) ==
    LET valid == ValidSectionScores(section_scores)
    IN  SumSeq([k \in 1 .. Len(valid) |-> SectionScore(section_scores, valid[k])])

\* overall_avg >= bound / 2, for the bounds 4.5, 4 and 3 of the function.
OverallAvgAtLeast(section_scores, twice_bound) ==
    2 * SectionTotal(section_scores) >= twice_bound * Len(ValidSectionScores(section_scores))

\* high_score_sections: the valid sections with a score of 4 or more.
HighScoreSections(section_scores) ==
    SelectSeq(ValidSectionScores(section_scores),
              LAMBDA section : SectionScore(section_scores, section) >= 4)

\* intro: chosen by overall_avg and high_score_sections; in the band
\* 3 <= overall_avg < 4 without a high section, random.random() < 0.33
\* chooses between two introductions.
FeedbackIntro(section_scores) ==
    LET high_score_sections == HighScoreSections(section_scores)
    IN  IF OverallAvgAtLeast(section_scores, 9) THEN {<<"intro_outstanding">>}
        ELSE IF OverallAvgAtLeast(section_scores, 8) THEN {<<"intro_excellent">>}
        ELSE IF Len(high_score_sections) = 1
             THEN {<<"intro_one_strength", high_score_sections[1]>>}
        ELSE IF Len(high_score_sections) > 1
             THEN {<<"intro_two_strengths", high_score_sections[1], high_score_sections[2]>>}
        ELSE IF OverallAvgAtLeast(section_scores, 6)
             THEN {<<"intro_balanced">>, <<"intro_stable">>}
        ELSE {<<"intro_potential">>}

\* A list of names as the function joins it: the first, and the second
\* after a conjunction.
FirstTwo(opening, names, conjunction, ending) ==
    IF names = <<>> THEN <<>>
    ELSE <<opening, names[1]>>
         \o (IF Len(names) > 1 THEN <<conjunction, names[2]>> ELSE <<>>)
         \o <<ending>>

\* The comment on the comparison with the previous session.
ProgressComment(progress_analysis) ==
    IF ~progress_analysis.has_comparison THEN <<>>
    ELSE FirstTwo("improved_in", progress_analysis.improved_metrics, "and", "improved_end")
         \o FirstTwo("declined_in", progress_analysis.declined_metrics, "and", "declined_end")
         \o (IF progress_analysis.stable_metrics # <<>> THEN <<"others_stable">> ELSE <<>>)

\* The entries of `order` that are in `chosen`, in that order.
InOrder(order, chosen) == SelectSeq(order, LAMBDA metric : metric \in chosen)

\* The order in which the function tests the metrics of a section.
AgilityTestOrder == <<"10m_Sprint", "505_Test_Forward", "505_Test_Backward", "CODD">>
JumpingTestOrder == <<"CMJ", "SJ", "BJ", "RJ", "SH">>

\* The metrics of a dictionary of metric scores that satisfy a test; a
\* metric without a score is not in the dictionary.
HighMetrics(metric_scores, names) ==
    {m \in names : metric_scores[m] # None /\ metric_scores[m].v >= 4}
LowMetrics(metric_scores, names) ==
    {m \in names : metric_scores[m] # None /\ metric_scores[m].v <= 2}

\* strengths: for a section with a score of 4 or more its high metrics, or
\* the section as a whole when it has none.
Strengths(section_scores, metric_scores) ==
    LET high_agility_metrics == HighMetrics(metric_scores, Range(AgilityTestOrder))
        high_jumping_metrics == HighMetrics(metric_scores, Range(JumpingTestOrder))
    IN  (IF SectionScore(section_scores, "Agility") < 4 THEN <<>>
         ELSE IF high_agility_metrics = {} THEN <<"Agility">>
         ELSE InOrder(AgilityTestOrder, high_agility_metrics))
        \o
        (IF SectionScore(section_scores, "Jumping") < 4 THEN <<>>
         ELSE IF high_jumping_metrics = {} THEN <<"Jumping">>
         ELSE InOrder(JumpingTestOrder, high_jumping_metrics))

\* improvement_areas (training_suggestions has one entry for each): for a
\* section with a score of 2 or less its low metrics, for a section with
\* the score 3 the section as a whole.
ImprovementAreas(section_scores, metric_scores) ==
    (IF SectionScore(section_scores, "Agility") <= 2
     THEN InOrder(AgilityTestOrder, LowMetrics(metric_scores, Range(AgilityTestOrder)))
     ELSE IF SectionScore(section_scores, "Agility") = 3 THEN <<"Agility">>
     ELSE <<>>)
    \o
    (IF SectionScore(section_scores, "Jumping") <= 2
     THEN InOrder(JumpingTestOrder, LowMetrics(metric_scores, Range(JumpingTestOrder)))
     ELSE IF SectionScore(section_scores, "Jumping") = 3 THEN <<"Jumping">>
     ELSE <<>>)

\* max(valid_section_scores, key=...) and min(...): the first section of
\* the dictionary with the highest, the lowest score.
BestSection(section_scores) ==
    LET valid == ValidSectionScores(section_scores)
        k == CHOOSE k \in 1 .. Len(valid) :
                /\ \A j \in 1 .. Len(valid) :
                      SectionScore(section_scores, valid[j]) <= SectionScore(section_scores, valid[k])
                /\ \A j \in 1 .. (k - 1) :
                      SectionScore(section_scores, valid[j]) < SectionScore(section_scores, valid[k])
    IN  valid[k]

WorstSection(section_scores) ==
    LET valid == ValidSectionScores(section_scores)
        k == CHOOSE k \in 1 .. Len(valid) :
                /\ \A j \in 1 .. Len(valid) :
                      SectionScore(section_scores, valid[j]) >= SectionScore(section_scores, valid[k])
                /\ \A j \in 1 .. (k - 1) :
                      SectionScore(section_scores, valid[j]) > SectionScore(section_scores, valid[k])
    IN  valid[k]

\* The summary and the closing message.
FeedbackSummary(section_scores) ==
    LET best_section == BestSection(section_scores)
        worst_section == WorstSection(section_scores)
    IN  (IF best_section # worst_section
         THEN IF SectionScore(section_scores, best_section) >= 4
              THEN <<"build_on", best_section, "raise", worst_section>>
              ELSE <<"grow_from", best_section, "raise", worst_section>>
         ELSE IF OverallAvgAtLeast(section_scores, 8) THEN <<"keep_high_level">>
         ELSE <<"keep_improving">>)
        \o
        (IF OverallAvgAtLeast(section_scores, 8) THEN <<"closing_high">>
         ELSE IF OverallAvgAtLeast(section_scores, 6) THEN <<"closing_middle">>
         ELSE <<"closing_low">>)

\* The text without sections that have a score.
InsufficientData == <<"insufficient_data">>

\* The texts the function can return for given section scores, metric
\* scores and progress analysis.
FeedbackTexts(section_scores, metric_scores, progress_analysis) ==
    IF ValidSectionScores(section_scores) = <<>> THEN {InsufficientData}
    ELSE { intro
           \o ProgressComment(progress_analysis)
           \o FirstTwo("strong_in", Strengths(section_scores, metric_scores), "and",
                       "strong_end")
           \o FirstTwo("work_on", ImprovementAreas(section_scores, metric_scores), "and",
                       "work_end")
           \o FirstTwo("train", ImprovementAreas(section_scores, metric_scores), "and",
                       "train_end")
           \o FeedbackSummary(section_scores) :
           intro \in FeedbackIntro(section_scores) }

\* The direction of a metric in the dictionaries of the function.
ReverseOf(metric) ==
    all_metrics[CHOOSE k \in 1 .. Len(all_metrics) : all_metrics[k].name = metric].reverse

\* agility_metric_scores and jumping_metric_scores as one dictionary: the
\* score of each metric, None for a metric without a score.
FeedbackMetricScores(player_data, all_data, columns) ==
    LET scored == MetricNames \cap columns
        scores(m) == {run.score : run \in get_individual_metric_score(player_data, all_data,
                                                                     columns, m, ReverseOf(m))}
    IN  { [m \in MetricNames |-> IF m \in scored THEN chosen[m] ELSE None] :
          chosen \in {c \in [scored -> UNION {scores(m) : m \in scored}] :
                         \A m \in scored : c[m] \in scores(m)} }

\* The texts generate_personalized_feedback can return.
generate_personalized_feedback(section_scores, player_data, all_data, columns) ==
    UNION { FeedbackTexts(section_scores, metric_scores, run.result) :
            metric_scores \in FeedbackMetricScores(player_data, all_data, columns),
            run \in analyze_progress(player_data, columns) }

(***************************************************************************)
(* The feedback of the dashboard: main() shows the generated text of the   *)
(* selected athlete in a text area, keeps the content of the text area in  *)
(* st.session_state under a key of the athlete, and the exports read it    *)
(* from there.  One action is one run of the script.                       *)
(***************************************************************************)
\* feedback_key = f"feedback_{selected_name}"
FeedbackKey(player_name) == <<"feedback", player_name>>

\* st.session_state[key] = text
Stored(store, key, text) ==
    [k \in DOMAIN store \cup {key} |-> IF k = key THEN text ELSE store[k]]

\* section_scores of main and of generate_all_pdf_reports: the score of each
\* section of the configuration, 0 for a section without a score.
SectionScoresOf(player_data, data, columns) ==
    LET scores(section) ==
            {IF score = None THEN Num(0) ELSE score :
                score \in calculate_section_score(player_data, data, columns,
                                                  get_test_config[section].score_metrics,
                                                  get_test_config[section].reverse_scoring)}
    IN  { [section \in SectionNames |->
              IF section = SectionOrder[1] THEN first
              ELSE IF section = SectionOrder[2] THEN second ELSE third] :
          first \in scores(SectionOrder[1]), second \in scores(SectionOrder[2]),
          third \in scores(SectionOrder[3]) }

\* One outcome of the first lines of the feedback section of main: the
\* section scores and the generated text auto_feedback_text.
AutoFeedback(section_scores, text) == [section_scores |-> section_scores, text |-> text]

AutoFeedbacks(player_data, data, columns) ==
    UNION { { AutoFeedback(section_scores, text) :
              text \in generate_personalized_feedback(section_scores, player_data, data,
                                                      columns) } :
            section_scores \in SectionScoresOf(player_data, data, columns) }

\* if feedback_key not in st.session_state: st.session_state[feedback_key] = auto_feedback_text
WithDefault(store, key, auto_feedback_text) ==
    IF key \in DOMAIN store THEN store ELSE Stored(store, key, auto_feedback_text)

\* Variant of the batch that always generates the text.
BatchFeedbackText_always_generated(store, player_name, generated) ==
    generated

\* feedback_text of generate_all_pdf_reports for one athlete: the entry of
\* the session state when there is one, else a generated text.
BatchFeedbackText(store, player_name, generated) ==
    IF FeedbackKey(player_name) \in DOMAIN store THEN {store[FeedbackKey(player_name)]}
    ELSE generated

\* The feedback text of every report of the batch, by athlete.
RECURSIVE BatchFeedback(_, _, _, _, _)
BatchFeedback(all_players, k, data, columns, store) ==
    IF k > Len(all_players) THEN {EmptySessionState}
    ELSE LET player_name == all_players[k]
             generated == {auto.text : auto \in AutoFeedbacks(PlayerData(data, player_name),
                                                             data, columns)}
         IN  { Stored(rest, player_name, feedback_text) :
               feedback_text \in BatchFeedbackText(store, player_name, generated),
               rest \in BatchFeedback(all_players, k + 1, data, columns, store) }

\* The texts a user types into the text area.
EditedTexts == {<<"edited_1">>, <<"edited_2">>}

MaxFeedbackRows == 2

FeedbackCells == {NaN, Num(1), Num(3)}

InitFeedback ==
    /\ call = NoCall
    /\ session_state = EmptySessionState
    /\ cols = {"Name", "Category", "Date", CohortMetric}
    /\ \E n \in 0 .. MaxFeedbackRows :
          \E names \in [1 .. n -> CohortNames], cells \in [1 .. n -> FeedbackCells] :
              df = CohortTable(n, names, [i \in 1 .. n |-> "U12"], cells)

\* What a run of the feedback section records.
FeedbackCall(op, player, auto, feedback) ==
    Call(op, player, "", 0, <<>>, FALSE, None, NoDate)
        @@ [auto |-> auto, feedback |-> feedback, before |-> session_state]

\* The athlete's page is on screen: a run has shown it before.
Shown(player) == FeedbackKey(player) \in DOMAIN session_state

\* A run that shows the page of an athlete of the table, no button pressed
\* and the text area untouched (or the save button, which stores nothing):
\* the text area returns the stored text.
FeedbackView ==
    /\ Idle
    /\ \E player \in CohortNames :
          /\ PlayerData(df, player) # <<>>
          /\ \E auto \in AutoFeedbacks(PlayerData(df, player), df, cols) :
                LET store == WithDefault(session_state, FeedbackKey(player), auto.text)
                    feedback_text == store[FeedbackKey(player)]
                IN  /\ session_state' = Stored(store, FeedbackKey(player), feedback_text)
                    /\ call' = FeedbackCall("view", player, auto, feedback_text)
    /\ UNCHANGED <<df, cols>>

\* The run after the user has typed a text into the text area.
FeedbackEdit ==
    /\ Idle
    /\ \E player \in CohortNames :
          /\ Shown(player)
          /\ \E auto \in AutoFeedbacks(PlayerData(df, player), df, cols),
                feedback_text \in EditedTexts :
                LET store == WithDefault(session_state, FeedbackKey(player), auto.text)
                IN  /\ session_state' = Stored(store, FeedbackKey(player), feedback_text)
                    /\ call' = FeedbackCall("edit", player, auto, feedback_text)
    /\ UNCHANGED <<df, cols>>

\* The reset button: the run stores auto_feedback_text and calls st.rerun();
\* in the new run the text area, whose value argument is now the stored
\* text, returns that text or keeps the content it had, and what it returns
\* is stored.
FeedbackReset ==
    /\ Idle
    /\ \E player \in CohortNames :
          /\ Shown(player)
          /\ \E auto \in AutoFeedbacks(PlayerData(df, player), df, cols),
                again \in AutoFeedbacks(PlayerData(df, player), df, cols) :
                \E feedback_text \in {auto.text, session_state[FeedbackKey(player)]} :
                    /\ session_state' = Stored(Stored(session_state, FeedbackKey(player),
                                                      auto.text),
                                               FeedbackKey(player), feedback_text)
                    /\ call' = FeedbackCall("reset", player, again, feedback_text)
    /\ UNCHANGED <<df, cols>>

\* The button of the report of the selected athlete:
\*   current_feedback = st.session_state.get(f"feedback_{selected_name}", feedback_text)
FeedbackExport ==
    /\ Idle
    /\ \E player \in CohortNames :
          /\ Shown(player)
          /\ \E auto \in AutoFeedbacks(PlayerData(df, player), df, cols) :
                LET store == WithDefault(session_state, FeedbackKey(player), auto.text)
                    feedback_text == store[FeedbackKey(player)]
                    shown == Stored(store, FeedbackKey(player), feedback_text)
                    current_feedback == shown[FeedbackKey(player)]
                IN  /\ session_state' = shown
                    /\ call' = FeedbackCall("export", player, auto,
                                            Stored(EmptySessionState, player, current_feedback))
    /\ UNCHANGED <<df, cols>>

\* The button of the reports of all athletes, pressed on the page of the
\* selected athlete: generate_all_pdf_reports(df, config).
FeedbackExportAll ==
    /\ Idle
    /\ \E player \in CohortNames :
          /\ Shown(player)
          /\ \E auto \in AutoFeedbacks(PlayerData(df, player), df, cols) :
                LET store == WithDefault(session_state, FeedbackKey(player), auto.text)
                    shown == Stored(store, FeedbackKey(player), store[FeedbackKey(player)])
                IN  /\ session_state' = shown
                    /\ \E feedback \in BatchFeedback(UniqueNames(df, 1), 1, df, cols, shown) :
                          call' = FeedbackCall("export_all", player, auto, feedback)
    /\ UNCHANGED <<df, cols>>

NextFeedback ==
    \/ FeedbackView
    \/ FeedbackEdit
    \/ FeedbackReset
    \/ FeedbackExport
    \/ FeedbackExportAll
    \/ Discard

SpecFeedback == InitFeedback /\ [][NextFeedback]_vars

(***************************************************************************)
(* Claims about the feedback.                                              *)
(***************************************************************************)
IsFeedbackRun == call.op \in {"view", "edit", "reset", "export", "export_all"}
IsExport == call.op \in {"export", "export_all"}

\* The texts that can be generated for an athlete of the table.
GeneratedTexts(player) ==
    {auto.text : auto \in AutoFeedbacks(PlayerData(df, player), df, cols)}

\* The stored text of an athlete, as a list: empty without an entry.
Entry(player) ==
    IF Shown(player) THEN <<session_state[FeedbackKey(player)]>> ELSE <<>>

\* Every report of an export carries the text stored for its athlete when
\* the export began, or a generated text when none was stored.
ExportUsesStoredText ==
    IsExport =>
        \A player \in DOMAIN call.feedback :
            IF FeedbackKey(player) \in DOMAIN call.before
            THEN call.feedback[player] = call.before[FeedbackKey(player)]
            ELSE call.feedback[player] \in GeneratedTexts(player)

\* A run changes the stored text of the selected athlete only.
OtherEntriesKept ==
    \A player \in CohortNames : player # call'.player => Entry(player)' = Entry(player)

\* C25: after any sequence of view, edit and reset runs, an export uses
\* for each athlete the text stored for that athlete if there is one and a
\* generated text otherwise, and no run on one athlete's feedback changes
\* the text stored, hence exported, for another athlete.
C25_StoredTextExported == []ExportUsesStoredText /\ [][OtherEntriesKept]_vars

\* An export of all reports after athlete A's text was edited and athlete
\* B's page was never shown: A's report carries the edited text, B's a
\* generated one.
C25_Witness ==
    /\ call.op = "export_all"
    /\ call.player = "A"
    /\ call.before[FeedbackKey("A")] \in EditedTexts
    /\ FeedbackKey("B") \notin DOMAIN call.before
    /\ DOMAIN call.feedback = {"A", "B"}
    /\ call.feedback["A"] = call.before[FeedbackKey("A")]
    /\ call.feedback["B"] \in GeneratedTexts("B")

\* C26: generate_personalized_feedback is deterministic: every call with
\* the section scores, the athlete's records and the table of a call
\* returns the text that call returned.
C26_Deterministic ==
    IsFeedbackRun =>
        generate_personalized_feedback(call.auto.section_scores, CallData, df, cols)
            = {call.auto.text}

(***************************************************************************)
(* Claims about failures in the batch.                                     *)
(***************************************************************************)
\* The tables with the rows of a table in another order.
Reordered(data) ==
    {[i \in 1 .. Len(data) |-> data[p[i]]] :
        p \in (IF Len(data) \in DOMAIN SmallPermutations THEN SmallPermutations[Len(data)]
               ELSE IndexPermutations(Len(data)))}

\* C27: a failure for one athlete does not end the batch: every athlete
\* of the table whose report was generated has exactly one report in the
\* archive, whatever happened to the others, and the athletes that have a
\* report are the same for every order of the rows of the table.
C27_FailureDoesNotAbort ==
    IsBatchCall =>
        /\ \A name \in CohortNames :
              (PlayerData(df, name) # <<>> /\ name \notin call.failed) => ReportsOf(name) = 1
        /\ \A data \in Reordered(df) :
              Range(generate_all_pdf_reports(data, call.failed)) = Range(call.reports)

\* The report of the first athlete of the table fails, the second athlete
\* has a report.
C27_Witness ==
    /\ IsBatchCall
    /\ UniqueNames(df, 1) = <<"A", "B">>
    /\ call.failed = {"A"}
    /\ call.reports = <<"B">>

(***************************************************************************)
(* Specification of the scores of the dashboard: main() computes the       *)
(* section scores of the selected athlete, 0 standing for a section        *)
(* without a score, and the overall score from them.  One record per       *)
(* athlete, a body composition and an agility metric column.               *)
(***************************************************************************)
MainColumns == {"Height", "10m_Sprint"}

InitMain ==
    /\ call = NoCall
    /\ session_state = EmptySessionState
    /\ cols = {"Name", "Category", "Date"} \cup MainColumns
    /\ \E cells \in [1 .. MaxAthletes -> [MainColumns -> SectionCells]] :
          df = SectionTable(MaxAthletes, MainColumns, cells)

\* The score block of main: section_scores, then overall_score.
MainScores ==
    /\ Idle
    /\ \E player \in SectionPlayers :
          \E section_scores \in SectionScoresOf(PlayerData(df, player), df, cols) :
              call' = Call("main", player, "", 0, <<>>, FALSE,
                           calculate_overall_score(section_scores), NoDate)
                        @@ [section_scores |-> section_scores]
    /\ UNCHANGED <<df, cols, session_state>>

NextMain == MainScores \/ Discard

SpecMain == InitMain /\ [][NextMain]_vars

(***************************************************************************)
(* Claims about the scores of the dashboard.                               *)
(***************************************************************************)
IsMainCall == call.op = "main"

\* The scores calculate_section_score can return for a section and the
\* athlete of the call.
SectionScoresFor(section) ==
    calculate_section_score(CallData, df, cols, get_test_config[section].score_metrics,
                            get_test_config[section].reverse_scoring)

\* C28: a section score that is present is an integer from 1 to 5, the
\* value 0 stands exactly for a section without a score, and the overall
\* score, present exactly when a section score is, is an integer from 1 to
\* 5 that is the rounded mean of the present section scores only.
C28_ScoreRange ==
    IsMainCall =>
        LET n == Cardinality(PresentSections)
            total == SumOver(PresentSections, call.section_scores)
        IN  /\ \A section \in SectionNames :
                  /\ call.section_scores[section].v \in 0 .. 5
                  /\ IF call.section_scores[section].v = 0
                     THEN None \in SectionScoresFor(section)
                     ELSE call.section_scores[section] \in SectionScoresFor(section)
                  /\ \A score \in SectionScoresFor(section) : score # None => score.v \in 1 .. 5
            /\ IF n = 0 THEN call.ret = None
               ELSE /\ call.ret.k = "num"
                    /\ call.ret.v \in 1 .. 5
                    /\ 2 * (n * call.ret.v - total) <= n
                    /\ 2 * (total - n * call.ret.v) <= n

\* Body composition 5, agility 4, no jumping score: the overall score is
\* the mean of 5 and 4 rounded to even, not a mean over three sections.
C28_Witness ==
    /\ IsMainCall
    /\ call.section_scores["Body Composition"] = Num(5)
    /\ call.section_scores["Agility"] = Num(4)
    /\ call.section_scores["Jumping"] = Num(0)
    /\ call.ret = Num(4)

(***************************************************************************)
(* Claims that relate the functions to one another.                        *)
(***************************************************************************)
\* C29: whenever an athlete receives a score for a metric, the value that
\* is scored, the athlete's latest valid value over all of the athlete's
\* records, is one of the cohort values the score is computed against,
\* also when the athlete's records carry different or partly missing
\* category labels.
C29_OwnValueInCohort ==
    (IsMetricScoreCall /\ call.ret # None) =>
        /\ call.value # None
        /\ \E k \in 1 .. Len(call.cohort) : call.cohort[k] = call.value.v

(***************************************************************************)
(* Specification of the progress analysis over every reading the loader    *)
(* can leave in a metric column: missing, 0, a finite number or infinity   *)
(* (pd.to_numeric keeps "inf"); the sessions have distinct dates.          *)
(***************************************************************************)
LoadedCells ==
    [m \in ProgressMetrics |->
        IF m = "10m_Sprint" THEN {NaN, Num(0), Num(50), Inf}
        ELSE {Num(49), Num(51)}]

InitLoaded ==
    /\ call = NoCall
    /\ session_state = EmptySessionState
    /\ cols = {"Name", "Category", "Date"} \cup ProgressMetrics
    /\ \E n \in 0 .. MaxProgressRows :
          \E cells \in [1 .. n -> {row \in [ProgressMetrics -> UNION {LoadedCells[m] : m \in ProgressMetrics}] :
                                      \A m \in ProgressMetrics : row[m] \in LoadedCells[m]}] :
              df = ProgressTable(n, "ascending", cells)

SpecLoaded == InitLoaded /\ [][NextProgress]_vars

\* C30: for an athlete with distinct session dates and every metric that
\* analyze_progress compares, the reading it takes as latest is the value
\* safe_get_value returns for the athlete and the metric.
C30_SameLatest ==
    (IsProgressCall /\ ~call.raised) =>
        \A m \in ProgressMetrics :
            (/\ call.selected[m].latest_value # None
             /\ call.selected[m].previous_value # None) =>
                call.selected[m].latest_value \in safe_get_value(CallData, cols, m)

====
